---- MODULE Spec2Model ----
(***************************************************************************)
(* PODPLAYR media engine: the byte-range cache of utils/videoPreloader.ts, *)
(* the URL resolver of hooks/useNFTPreloader.ts and the playback sessions  *)
(* of the useAudioPlayer hook (unnamed/part_001).                          *)
(*                                                                         *)
(* A JavaScript string is represented by the list its split('/') returns:  *)
(* "ar://tx/f.mp3" is <<"ar:", "", "tx", "f.mp3">>, "" is <<"">>.  The     *)
(* representation is one-to-one, so every operation of the code that works *)
(* at '/' boundaries (startsWith, includes('/'), replace, split, join,     *)
(* template strings) is computed, not assumed.                             *)
(***************************************************************************)
EXTENDS Integers, Sequences, FiniteSets, TLC

VARIABLES
  \* ---- environment
  isMobile,        \* navigator.userAgent matches Android|iPhone|iPad
  cdnOn,           \* CDN_CONFIG.baseUrl is a non-empty string
  \* ---- VideoCache (utils/videoPreloader.ts)
  cache,           \* the Map, as its entries in iteration order
  currentSize,     \* the currentSize counter
  evicted,         \* keys the last setChunk deleted, in order
  recency,         \* keys by last use (read hit or write), oldest first
  lastCacheOp,     \* the last cache call and its arguments
  \* ---- resolver runs
  rawUrl,          \* the raw media reference under resolution
  candidates,      \* the audioUrls list built for it
  resolved,        \* processMediaUrl's result for it
  urlPhase,        \* "input" | "built"
  \* ---- useAudioPlayer
  sessions,        \* one record per handlePlayAudio call that got past its early returns
  audio,           \* the shared HTMLAudioElement of audioRef
  videoListeners,  \* sessions whose videoEventHandlers are attached to the video element
  currentlyPlaying,\* the currentlyPlaying / currentPlayingNFT state
  immediatelyTrackedNFTs, \* the module-level Set of keys
  playLog,         \* calls into the excluded layers, in order
  lastOp,          \* the last handler that ran
  \* ---- queues (useAudioPlayer, useNFTQueue, window.nftList)
  currentQueue,    \* useAudioPlayer's currentQueue state
  queueType,       \* useAudioPlayer's queueType state
  windowNftList,   \* window.nftList as updateQueue assigns it, <<>> while undefined
  currentNFTQueue, \* useNFTQueue's currentNFTQueue state
  currentPlayingNFT, \* the currentPlayingNFT state the next/previous handlers read
  nav,             \* the last next/previous call and what it asked to play
  \* ---- play() / pause() on the audio and the video element
  playback,        \* the two elements, isPlaying, the refs of Player.tsx and
                   \* the record-play promises, as one record
  \* ---- resolver calls and predictive preloading
  resolving,       \* the last processMediaUrl / audioUrls call and its results
  preload,         \* the last predictivePreload call and the preloads it started
  \* ---- the recently-played list, a small VideoCache, the like listeners
  recent,          \* recentlyPlayedNFTs and the record of the last handlePlayAudio call
  scenario,        \* a VideoCache with a budget of its own and the calls made on it
  likes            \* useNFTLikeState instances, activeListeners, Firestore subscriptions

envVars    == <<isMobile, cdnOn>>
cacheVars  == <<cache, currentSize, evicted, recency, lastCacheOp>>
urlVars    == <<rawUrl, candidates, resolved, urlPhase>>
playerVars == <<sessions, audio, videoListeners, currentlyPlaying,
                immediatelyTrackedNFTs, playLog, lastOp>>
queueVars  == <<currentQueue, queueType, windowNftList, currentNFTQueue,
                currentPlayingNFT, nav>>
\* what the cache, the resolver runs and the playback sessions never touch
lateVars   == <<recent, scenario, likes>>
auxVars    == <<resolving, preload, lateVars>>
extVars    == <<queueVars, playback, auxVars>>
vars       == <<envVars, cacheVars, urlVars, playerVars, extVars>>

(***************************************************************************)
(* Strings                                                                 *)
(***************************************************************************)
EMPTY == <<"">>

\* a + b
Concat(a, b) ==
  SubSeq(a, 1, Len(a) - 1) \o <<a[Len(a)] \o b[1]>> \o Tail(b)

\* s.startsWith(p), for a prefix p that ends in '/'
StartsWith(s, p) ==
  /\ Len(s) >= Len(p)
  /\ \A i \in 1..(Len(p) - 1) : s[i] = p[i]

\* s.includes('/')
IncludesSlash(s) == Len(s) >= 2

\* s.replace(p, '') for a string s that starts with p (p ends in '/')
DropPrefix(s, p) == SubSeq(s, Len(p), Len(s))

\* s.split('/')[0]
FirstSegment(s) == <<s[1]>>

\* s.split('/').slice(1).join('/')
RestJoined(s) == IF Len(s) = 1 THEN EMPTY ELSE Tail(s)

\* s.split('/')[s.split('/').length - 1]
LastSegment(s) == <<s[Len(s)]>>

\* s.replace(/\/*$/, '')
RECURSIVE StripTrailingSlashes(_)
StripTrailingSlashes(s) ==
  IF Len(s) >= 2 /\ s[Len(s)] = ""
    THEN StripTrailingSlashes(SubSeq(s, 1, Len(s) - 1))
    ELSE s

\* s.replace(/\/ipfs\/ipfs\//, '/ipfs/'): the first "/ipfs/ipfs/" loses one "ipfs/"
DedupeIpfs(s) ==
  LET hits == {i \in 2..(Len(s) - 2) : s[i] = "ipfs" /\ s[i + 1] = "ipfs"}
  IN  IF hits = {} THEN s
      ELSE LET i == CHOOSE k \in hits : \A j \in hits : k <= j
           IN  SubSeq(s, 1, i) \o SubSeq(s, i + 2, Len(s))

AR_SCHEME    == <<"ar:", "", "">>
IPFS_SCHEME  == <<"ipfs:", "", "">>
HTTPS_SCHEME == <<"https:", "", "">>
HTTP_SCHEME  == <<"http:", "", "">>
ARWEAVE_NET  == <<"https:", "", "arweave.net", "">>
ARWEAVE_DEV  == <<"https:", "", "arweave.dev", "">>
CLOUDFLARE_IPFS == <<"https:", "", "cloudflare-ipfs.com", "ipfs", "">>
SLASH == <<"", "">>

IPFS_GATEWAYS == <<
  <<"https:", "", "ipfs.io", "ipfs", "">>,
  <<"https:", "", "nftstorage.link", "ipfs", "">>,
  <<"https:", "", "cloudflare-ipfs.com", "ipfs", "">>,
  <<"https:", "", "gateway.pinata.cloud", "ipfs", "">> >>

ARWEAVE_AUDIO_GATEWAYS == <<
  <<"https:", "", "arweave.net", "">>,
  <<"https:", "", "arweave.dev", "">>,
  <<"https:", "", "gateway.arweave.net", "">>,
  <<"https:", "", "arweave.crustapps.net", "">> >>

DEFAULT_FALLBACK == <<"", "default-nft.png">>

\* The identifiers the inputs are built from.
TX_A  == "qILNpSrUH8TcX_-_zGDicXiaAYaqLDF6Xxu2WVz1Uek"
TX_B  == "ykXQJ6ujmaciYiWHitm_Q_vcWtw_ER8nLjt3FocR9eo"
CID_A == "QmYwAPJzv5CZsnA625s3Xf2nemtYgPpHdWEz79ojWnPbdG"

\* /^[a-zA-Z0-9_-]{43}$/.test(part), on the identifiers above
IsTxId43(part) == Len(part) = 43

\* the capture of /(?:ipfs\/|\/ipfs\/|ipfs:)([a-zA-Z0-9]{46,}|...)/i in s, or EMPTY
IpfsPathHash(s) ==
  LET hits == {i \in 1..(Len(s) - 1) : s[i] = "ipfs" /\ Len(s[i + 1]) >= 46}
  IN  IF hits = {} THEN EMPTY
      ELSE <<s[(CHOOSE k \in hits : \A j \in hits : k <= j) + 1]>>

\* new URL(s).hostname of an http(s) URL
Hostname(s) == s[3]

\* /\.(mp3|wav|ogg|m4a|flac|aac)$/i.test(s), on the file names of the inputs
HasAudioExtension(s) == s[Len(s)] \in {"track.mp3", "song.wav", TX_B \o ".mp3"}

\* s.includes('arweave.net')
IncludesArweaveNet(s) ==
  \E i \in 1..Len(s) : s[i] \in {"arweave.net", "gateway.arweave.net"}

(***************************************************************************)
(* The CDN layer (./cdn) is configuration outside the resolver: when       *)
(* CDN_CONFIG.baseUrl is set, http(s) URLs are rewritten to the CDN host   *)
(* with the original URL kept in the path.                                 *)
(***************************************************************************)
CDN_HOST == "cdn.podplayr.xyz"

GetCdnUrl(url, mediaType) == <<"https:", "", CDN_HOST, mediaType>> \o url

\* url.includes(CDN_CONFIG.baseUrl)
IncludesCdnBase(s) ==
  \E i \in 1..(Len(s) - 2) : s[i] = "https:" /\ s[i + 1] = "" /\ s[i + 2] = CDN_HOST

\* hostname === 'cloudflare-ipfs.com' || hostname.startsWith('cdn.') || hostname.includes('.cdn.')
IsCdnHostname(h) == h \in {"cloudflare-ipfs.com", CDN_HOST}

\* new URL(url) throws: no host after the scheme
UrlParseThrows(s) == Len(s) < 3 \/ s[3] = ""

IsHttpUrl(s) == StartsWith(s, HTTP_SCHEME) \/ StartsWith(s, HTTPS_SCHEME)

\* what a throw leaves in place of a value
Thrown == <<"TypeError: Invalid URL">>

\* new URL(s).hostname in a one-element list, or Thrown: an http(s) URL needs
\* a host, any other string needs a scheme
NewUrlHostname(s) ==
  IF IsHttpUrl(s) THEN IF UrlParseThrows(s) THEN Thrown ELSE <<Hostname(s)>>
  ELSE IF StartsWith(s, <<"ar:", "", "">>) \/ StartsWith(s, <<"ipfs:", "", "">>)
    THEN <<Hostname(s)>>
  ELSE Thrown

\* a plausible slip: the try block is left out and the throw leaves the function
NoCatch(attempt, handled) == attempt

\* try { attempt } catch (e) { handled }
TryCatch(attempt, handled) == IF attempt = Thrown THEN handled ELSE attempt

(***************************************************************************)
(* hooks/useNFTPreloader.ts: the resolver                                  *)
(***************************************************************************)
NULL == <<>>

\* part.split('?')[0].split('#')[0]
CleanId(part) ==
  CASE part = "cover.png?v=2" -> "cover.png"
    [] part = "cover.png#top" -> "cover.png"
    [] OTHER -> part

\* [a-zA-Z0-9_-]+ and [a-zA-Z0-9_-]+(\.[a-zA-Z0-9]+)?
IsIdPart(part) == part \in {TX_A, TX_B, CID_A}
IsIdPartWithExtension(part) == IsIdPart(part) \/ part \in {TX_B \o ".mp3", "track.mp3", "song.wav"}

\* /^ar:\/\/([a-zA-Z0-9_-]+)\/([a-zA-Z0-9_-]+)(\.[a-zA-Z0-9]+)?$/
PodsMediaMatch(url) ==
  /\ Len(url) = 4
  /\ StartsWith(url, AR_SCHEME)
  /\ IsIdPart(url[3])
  /\ IsIdPartWithExtension(url[4])

ProcessArweaveUrl(url, mediaType) ==
  LET arPath == DropPrefix(url, AR_SCHEME) IN
  CASE url = EMPTY -> url
    [] url # EMPTY /\ StartsWith(url, ARWEAVE_NET) -> url
    [] url # EMPTY /\ ~StartsWith(url, ARWEAVE_NET) /\ ~StartsWith(url, AR_SCHEME) -> url
    [] OTHER ->
       IF mediaType = "audio" /\ IncludesSlash(url)
         THEN Concat(Concat(Concat(ARWEAVE_NET, FirstSegment(arPath)), SLASH),
                     RestJoined(arPath))
       ELSE IF PodsMediaMatch(url) /\ mediaType # "audio"
         THEN Concat(ARWEAVE_NET, <<url[4]>>)
       ELSE IF ~IncludesSlash(url)
         THEN Concat(ARWEAVE_NET, arPath)
       ELSE IF Len(arPath) = 1
         THEN Concat(ARWEAVE_NET, <<CleanId(arPath[1])>>)
       ELSE Concat(ARWEAVE_NET, <<CleanId(LastSegment(arPath)[1])>>)

\* /^(Qm[1-9A-HJ-NP-Za-km-z]{44}|bafy[a-zA-Z0-9]{55}|[a-zA-Z0-9]{46})$/.test(url)
IsDirectCid(url) == Len(url) = 1 /\ Len(url[1]) = 46

ExtractIPFSHash(url0) ==
  LET url == DedupeIpfs(url0)
      \* the nftstorage.link test, in its try block
      viaNftStorage ==
        TryCatch(IF NewUrlHostname(url) = Thrown THEN Thrown
                 ELSE IF /\ NewUrlHostname(url) = <<"nftstorage.link">>
                         /\ \E i \in 4..(Len(url) - 1) : url[i] = "ipfs"
                   THEN url
                 ELSE NULL,
                 NULL)
  IN
  IF url0 = EMPTY THEN NULL
  ELSE IF StartsWith(url, IPFS_SCHEME) THEN DropPrefix(url, IPFS_SCHEME)
  ELSE IF IpfsPathHash(url) # EMPTY THEN IpfsPathHash(url)
  ELSE IF viaNftStorage # NULL THEN viaNftStorage
  ELSE IF IsDirectCid(url) THEN url
  ELSE NULL

\* a plausible slip: the user-agent test is left out
IpfsPrimaryGatewayUrl(hash, mediaType, mobile, cdn) ==
  IF cdn THEN GetCdnUrl(Concat(IPFS_GATEWAYS[1], hash), mediaType)
  ELSE Concat(IPFS_GATEWAYS[1], hash)

\* the gateway URL both IPFS branches of processMediaUrl return
IpfsGatewayUrl(hash, mediaType, mobile, cdn) ==
  IF cdn THEN GetCdnUrl(Concat(IPFS_GATEWAYS[1], hash), mediaType)
  ELSE IF mobile THEN Concat(CLOUDFLARE_IPFS, hash)
  ELSE Concat(IPFS_GATEWAYS[1], hash)

ProcessMediaUrl(url0, fallbackUrl, mediaType, mobile, cdn) ==
  LET url  == DedupeIpfs(url0)
      txId == DropPrefix(url, AR_SCHEME)
      arweaveUrl ==
        IF IncludesSlash(txId)
          THEN Concat(Concat(Concat(ARWEAVE_NET, FirstSegment(txId)), SLASH),
                      RestJoined(txId))
          ELSE Concat(ARWEAVE_NET, txId)
      \* the CDN rewrite of an http(s) URL, in its try block
      viaCdn ==
        TryCatch(IF NewUrlHostname(url0) = Thrown THEN Thrown
                 ELSE IF ~IsCdnHostname(Hostname(url0))
                   THEN GetCdnUrl(url0, mediaType)
                 ELSE NULL,
                 NULL)
  IN
  IF url0 = EMPTY THEN fallbackUrl
  ELSE IF mediaType = "audio" /\ StartsWith(url0, AR_SCHEME)
    THEN ProcessArweaveUrl(url0, "audio")
  ELSE IF cdn /\ IncludesCdnBase(url0) THEN url0
  ELSE IF cdn /\ IsHttpUrl(url0) /\ viaCdn # NULL THEN viaCdn
  ELSE IF StartsWith(url, IPFS_SCHEME)
    THEN IpfsGatewayUrl(StripTrailingSlashes(DropPrefix(url, IPFS_SCHEME)),
                        mediaType, mobile, cdn)
  ELSE IF ExtractIPFSHash(url) = Thrown THEN Thrown
  ELSE IF ExtractIPFSHash(url) # NULL
    THEN IpfsGatewayUrl(StripTrailingSlashes(ExtractIPFSHash(url)),
                        mediaType, mobile, cdn)
  ELSE IF StartsWith(url, AR_SCHEME)
    THEN IF cdn THEN GetCdnUrl(arweaveUrl, mediaType) ELSE arweaveUrl
  ELSE IF cdn /\ IsHttpUrl(url) THEN GetCdnUrl(url, mediaType)
  ELSE url

(***************************************************************************)
(* useAudioPlayer.handlePlayAudio: the audioUrls list                      *)
(***************************************************************************)
\* audioUrls.includes(u)
Includes(list, u) == \E i \in 1..Len(list) : list[i] = u

\* a plausible slip: the includes() test is left out
PushAlways(list, u) == Append(list, u)

\* if (!audioUrls.includes(u)) audioUrls.push(u)
PushIfAbsent(list, u) == IF Includes(list, u) THEN list ELSE Append(list, u)

\* processedUrl && processedUrl !== 'undefined' && processedUrl !== 'null'
IsUsableUrl(u) == u # EMPTY /\ u # <<"undefined">> /\ u # <<"null">>

BuildAudioUrls(raw, mobile, cdn) ==
  LET rest      == DropPrefix(raw, AR_SCHEME)
      txId      == FirstSegment(rest)
      filePath  == RestJoined(rest)
      processed == ProcessMediaUrl(raw, DEFAULT_FALLBACK, "audio", mobile, cdn)
      first     == IF IsUsableUrl(processed) THEN <<processed>> ELSE <<>>
      second    == IF StartsWith(raw, AR_SCHEME)
                     THEN PushIfAbsent(first, Concat(ARWEAVE_NET, rest))
                     ELSE first
  IN
  IF StartsWith(raw, AR_SCHEME) /\ IncludesSlash(raw)
    THEN << Concat(Concat(Concat(ARWEAVE_NET, txId), SLASH), filePath),
            Concat(Concat(Concat(ARWEAVE_DEV, txId), SLASH), filePath),
            Concat(ARWEAVE_NET, txId) >>
    ELSE IF StartsWith(raw, HTTPS_SCHEME) THEN PushIfAbsent(second, raw) ELSE second

(***************************************************************************)
(* utils/videoPreloader.ts: VideoCache                                     *)
(***************************************************************************)
\* this.maxSize, for the budget the cache under test is constructed with
CacheMaxSize == 4

CacheUrls   == {"u1", "u2"}
RangeStarts == {0}
RangeEnds   == {0, 1}
\* chunk.byteLength: small chunks, and one byte more than the whole budget
ChunkSizes  == {1, 2, CacheMaxSize + 1}

\* `${url}:${start}-${end}`
CacheKey(url, start, end) == <<url, start, end>>

RECURSIVE SumSizes(_)
SumSizes(entries) ==
  IF entries = <<>> THEN 0 ELSE Head(entries).size + SumSizes(Tail(entries))

\* this.cache.has(key)
CacheHas(entries, key) == \E i \in 1..Len(entries) : entries[i].key = key

RemoveKey(entries, key) == SelectSeq(entries, LAMBDA e : e.key # key)

\* Map.set: a present key keeps its place and takes the new value
MapSet(entries, key, size) ==
  IF CacheHas(entries, key)
    THEN [i \in 1..Len(entries) |->
            IF entries[i].key = key THEN [key |-> key, size |-> size] ELSE entries[i]]
    ELSE Append(entries, [key |-> key, size |-> size])

\* a plausible slip: the loop body runs at most once
RECURSIVE EvictOnlyOne(_, _, _, _)
EvictOnlyOne(entries, cur, chunkSize, i) ==
  IF cur + chunkSize > CacheMaxSize /\ i < Len(entries) /\ i < 1
    THEN EvictOnlyOne(entries, cur - entries[i + 1].size, chunkSize, i + 1)
    ELSE i

\* a plausible slip: nothing is deleted to make room
EvictNothing(maxSize, entries, cur, chunkSize, i) == i

\* the while loop of setChunk in a cache of budget maxSize: how many
\* entries of the snapshot it deletes
RECURSIVE EvictWithin(_, _, _, _, _)
EvictWithin(maxSize, entries, cur, chunkSize, i) ==
  IF cur + chunkSize > maxSize /\ i < Len(entries)
    THEN EvictWithin(maxSize, entries, cur - entries[i + 1].size, chunkSize, i + 1)
    ELSE i

\* the loop in the shared videoCache
EvictCount(entries, cur, chunkSize, i) ==
  EvictWithin(CacheMaxSize, entries, cur, chunkSize, i)

KeysOf(entries) == [i \in 1..Len(entries) |-> entries[i].key]

\* what the deleted keys are when deletion follows the order of last use
OldestUsed(order, n) == IF n <= Len(order) THEN SubSeq(order, 1, n) ELSE <<>>

SetChunk(url, start, end, chunkSize) ==
  LET key  == CacheKey(url, start, end)
      n    == EvictCount(cache, currentSize, chunkSize, 0)
      gone == SubSeq(cache, 1, n)
      kept == SubSeq(cache, n + 1, Len(cache))
  IN  /\ cache' = MapSet(kept, key, chunkSize)
      /\ currentSize' = (currentSize - SumSizes(gone)) + chunkSize
      /\ evicted' = KeysOf(gone)
      /\ recency' = Append(SelectSeq(recency,
                             LAMBDA k : k # key /\ ~CacheHas(gone, k)), key)
      /\ lastCacheOp' = [op |-> "set", key |-> key, inserted |-> key,
                         inUseOrder |-> (KeysOf(gone) = OldestUsed(recency, n))]

\* getChunk's delete-then-set on a hit
Promote(entries, key) ==
  LET hit == CHOOSE e \in {entries[i] : i \in 1..Len(entries)} : e.key = key
  IN  Append(RemoveKey(entries, key), hit)

GetChunk(url, start, end) ==
  LET key == CacheKey(url, start, end) IN
  /\ cache' = IF CacheHas(cache, key) THEN Promote(cache, key) ELSE cache
  /\ recency' = IF CacheHas(cache, key)
                  THEN Append(SelectSeq(recency, LAMBDA k : k # key), key)
                  ELSE recency
  /\ evicted' = <<>>
  /\ lastCacheOp' = [op |-> IF CacheHas(cache, key) THEN "hit" ELSE "miss",
                     key |-> key, inserted |-> lastCacheOp.inserted,
                     inUseOrder |-> TRUE]
  /\ UNCHANGED currentSize

ClearCache ==
  /\ cache # <<>> \/ currentSize # 0
  /\ cache' = <<>>
  /\ currentSize' = 0
  /\ evicted' = <<>>
  /\ recency' = <<>>
  /\ lastCacheOp' = [op |-> "clear", key |-> <<>>, inserted |-> <<>>,
                     inUseOrder |-> TRUE]

CacheInit ==
  /\ cache = <<>>
  /\ currentSize = 0
  /\ evicted = <<>>
  /\ recency = <<>>
  /\ lastCacheOp = [op |-> "new", key |-> <<>>, inserted |-> <<>>,
                    inUseOrder |-> TRUE]

UrlIdle ==
  /\ rawUrl = EMPTY
  /\ candidates = <<>>
  /\ resolved = EMPTY
  /\ urlPhase = "idle"

NoAudio == [src |-> EMPTY, owner |-> 0, status |-> "empty",
            onerror |-> [sess |-> 0, kind |-> "none"], listeners |-> {}]

PlayerIdle ==
  /\ sessions = <<>>
  /\ audio = NoAudio
  /\ videoListeners = {}
  /\ currentlyPlaying = "none"
  /\ immediatelyTrackedNFTs = {}
  /\ playLog = <<>>
  /\ lastOp = "mount"

EnvIdle == isMobile = FALSE /\ cdnOn = FALSE

NoNav == [impl |-> "none", op |-> "none", queue |-> <<>>, current |-> "none",
          played |-> "none"]

QueueIdle ==
  /\ currentQueue = <<>>
  /\ queueType = ""
  /\ windowNftList = <<>>
  /\ currentNFTQueue = <<>>
  /\ currentPlayingNFT = "none"
  /\ nav = NoNav

\* both elements paused, nothing requested
PlaybackIdle ==
  playback = [ paused |-> [el \in {"audio", "video"} |-> TRUE],
               pending |-> {}, isPlaying |-> FALSE,
               activePlayPromiseRef |-> FALSE, pauseWaiting |-> FALSE,
               videoHandlers |-> FALSE,
               playTracked |-> FALSE, audioProgress |-> 0,
               recordPending |-> 0, recordErrors |-> 0,
               \* microtasks and events queued while a handler runs
               micro |-> <<>>, events |-> <<>>,
               \* what follows records the last handler, it is no state of the code
               pauses |-> {}, aborts |-> {}, op |-> "mount" ]

\* no resolver call made yet
ResolvingIdle ==
  resolving = [ op |-> "none", raw |-> <<"">>, mediaType |-> "audio",
                out |-> <<>>, again |-> <<>>,
                audioUrls |-> <<>>, firstRaw |-> <<>>, firstUrls |-> <<>>,
                builds |-> 0, others |-> FALSE ]

\* predictivePreload not called yet
PreloadIdle ==
  preload = [ op |-> "none", nfts |-> <<>>, currentIndex |-> 0,
              preloadCount |-> <<>>, isCellular |-> FALSE,
              positions |-> <<>>, jobs |-> <<>>, errors |-> 0,
              raised |-> FALSE ]

\* a record that is not there
NoRecord == [token |-> 0, mediaKey |-> <<>>, added |-> FALSE, addedAt |-> 0]

\* useState<NFT[]>([]), nothing played
RecentIdle ==
  recent = [ op |-> "none", list |-> <<>>, current |-> 0, plays |-> 0,
             fresh |-> 0, before |-> NoRecord, after |-> NoRecord ]

\* new VideoCache(), no call made
ScenarioIdle ==
  scenario = [ cache |-> <<>>, currentSize |-> 0, calls |-> <<>> ]

\* no instance mounted, activeListeners empty
\* component instances of a page that call useNFTLikeState
MaxLikeInstances == 3

NoCleanup == [cacheKey |-> <<>>, subs |-> <<>>]

NoHook == [mounted |-> FALSE, cacheKeyRef |-> <<>>, cleanup |-> NoCleanup]

\* the module of the given version of useNFTLikeState once loaded: an empty
\* activeListeners map, no instance mounted, no Firestore subscription made
NoLikes(version) ==
  [version |-> version, uuids |-> 0, activeListeners |-> <<>>,
   hooks |-> [i \in 1..MaxLikeInstances |-> NoHook],
   subscriptions |-> <<>>, together |-> 0]

LikesIdle ==
  likes = NoLikes(1)

LateIdle == RecentIdle /\ ScenarioIdle /\ LikesIdle

ExtIdle == QueueIdle /\ PlaybackIdle /\ ResolvingIdle /\ PreloadIdle /\ LateIdle

InitCache == EnvIdle /\ CacheInit /\ UrlIdle /\ PlayerIdle /\ ExtIdle

CacheSet ==
  \E url \in CacheUrls, start \in RangeStarts, end \in RangeEnds, size \in ChunkSizes :
    SetChunk(url, start, end, size)

CacheGet ==
  \E url \in CacheUrls, start \in RangeStarts, end \in RangeEnds :
    GetChunk(url, start, end)

NextCache ==
  \/ CacheSet /\ UNCHANGED <<envVars, urlVars, playerVars, extVars>>
  \/ CacheGet /\ UNCHANGED <<envVars, urlVars, playerVars, extVars>>
  \/ ClearCache /\ UNCHANGED <<envVars, urlVars, playerVars, extVars>>

SpecCache == InitCache /\ [][NextCache]_vars

\* C1: after every cache call the byte lengths of the live entries sum to at
\* most maxSize, unless the most recently inserted entry alone exceeds maxSize.
C1_CacheBudget ==
  \/ SumSizes(cache) <= CacheMaxSize
  \/ \E i \in 1..Len(cache) :
       cache[i].key = lastCacheOp.inserted /\ cache[i].size > CacheMaxSize

\* a setChunk that had to delete two entries and kept one beside the new one
C1_Witness ==
  /\ lastCacheOp.op = "set"
  /\ Len(evicted) >= 2
  /\ Len(cache) >= 2

\* C5: a read hit makes the entry the most recently used, and setChunk deletes
\* the least recently used entries first: what it deleted is the oldest part
\* of the use order it found.
C5_EvictsLeastRecentlyUsed ==
  /\ lastCacheOp.op = "hit" =>
       cache # <<>> /\ cache[Len(cache)].key = lastCacheOp.key
  /\ lastCacheOp.op = "set" => lastCacheOp.inUseOrder

(***************************************************************************)
(* Resolver runs: one raw media reference, the list handlePlayAudio builds *)
(* for it and what processMediaUrl returns for it.                         *)
(***************************************************************************)
RawUrls == {
  <<"ar:", "", TX_A, "track.mp3">>,
  <<"ar:", "", TX_A, TX_B \o ".mp3">>,
  <<"ar:", "", TX_A>>,
  <<"ar:", "", TX_A, "album", "track.mp3">>,
  <<"ar:", "", "", "track.mp3">>,
  <<"ipfs:", "", CID_A>>,
  <<"ipfs:", "", CID_A, "">>,
  <<"ipfs:", "", CID_A, "track.mp3">>,
  <<"ipfs:", "", "QmFoo">>,
  <<"https:", "", "gateway.pinata.cloud", "ipfs", CID_A>>,
  <<"https:", "", "ipfs.io", "ipfs", CID_A>>,
  <<"https:", "", "ipfs.io", "ipfs", "ipfs", CID_A>>,
  <<"https:", "", "cloudflare-ipfs.com", "ipfs", CID_A>>,
  <<"https:", "", "nftstorage.link", "ipfs", "QmFoo">>,
  <<"https:", "", "example.com", "track.mp3">>,
  <<"https:", "", "arweave.net", TX_A, "track.mp3">>,
  <<"https:", "", "arweave.net", TX_A>>,
  <<"https:", "", CDN_HOST, "audio", "https:", "", "example.com", "track.mp3">>,
  <<"https:", "", "">>,
  <<"http:", "", "example.com", "song.wav">>,
  <<CID_A>>,
  <<"track.mp3">>,
  <<"undefined">>,
  <<"null">> }

InitUrls ==
  /\ isMobile \in BOOLEAN
  /\ cdnOn \in BOOLEAN
  /\ CacheInit
  /\ PlayerIdle
  /\ ExtIdle
  /\ rawUrl \in RawUrls
  /\ candidates = <<>>
  /\ resolved = EMPTY
  /\ urlPhase = "input"

\* handlePlayAudio up to "const audioUrl = audioUrls[0]"
UrlBuild ==
  /\ urlPhase = "input"
  /\ candidates' = BuildAudioUrls(rawUrl, isMobile, cdnOn)
  /\ resolved' = ProcessMediaUrl(rawUrl, DEFAULT_FALLBACK, "audio", isMobile, cdnOn)
  /\ urlPhase' = "built"
  /\ UNCHANGED <<rawUrl, envVars, cacheVars, playerVars, extVars>>

NextUrls == UrlBuild

SpecUrls == InitUrls /\ [][NextUrls]_vars

NoDuplicates(list) ==
  \A i, j \in 1..Len(list) : i # j => list[i] # list[j]

\* C10: a candidate list built for a playback attempt starts with the
\* resolver's output for the raw URL, holds no URL twice, and is no longer
\* than the configured gateway list.
C10_CandidateList ==
  (urlPhase = "built" /\ candidates # <<>>) =>
    /\ candidates[1] = resolved
    /\ NoDuplicates(candidates)
    /\ Len(candidates) <= Len(ARWEAVE_AUDIO_GATEWAYS)

\* an https reference whose resolved form differs from it: two candidates
C10_Witness ==
  /\ urlPhase = "built"
  /\ StartsWith(rawUrl, HTTPS_SCHEME)
  /\ Len(candidates) = 2
  /\ candidates[2] = rawUrl

(***************************************************************************)
(* Playback sessions of the hook (unnamed/part_001)                        *)
(***************************************************************************)
\* handlePlayAudio calls that start a session, per run
MaxSessions == 2
\* direct-transaction requests of one session the run follows
MaxLastResort == 2
\* audio.duration / video.duration once the metadata is loaded, in seconds
MediaDuration == 4
\* currentTime >= duration * 0.25
ThresholdPercent == 25
\* time updates at or past the quarter that the run counts per listener
MaxCrossings == 2

\* The NFT records: nft.metadata.animation_url || nft.audio, and nft.isVideo.
Items == {"A", "P", "Q", "V", "N", "U"}

ItemRaw(n) ==
  CASE n = "A" -> <<"https:", "", "gateway.pinata.cloud", "ipfs", CID_A>>
    [] n = "P" -> <<"ar:", "", TX_A, "track.mp3">>
    [] n = "Q" -> <<"ar:", "", TX_B, "song.wav">>
    [] n = "V" -> <<"https:", "", "example.com", "clip.mp4">>
    [] n = "U" -> <<"undefined">>
    [] OTHER   -> EMPTY

ItemIsVideo(n) == n = "V"

\* /\.(mp4|webm|mov)$/i
HasVideoExtension(url) == url[Len(url)] \in {"clip.mp4"}

\* nft.isVideo && nft.metadata?.animation_url?.match(/\.(mp4|webm|mov)$/i)
IsVideoWithEmbeddedAudio(n) == ItemIsVideo(n) /\ HasVideoExtension(ItemRaw(n))

\* rawAudioUrl.startsWith('ar://') && rawAudioUrl.includes('/')
IsPodsUrl(raw) == StartsWith(raw, AR_SCHEME) /\ IncludesSlash(raw)

\* `${nft.contract}-${nft.tokenId}`
LegacyKey(n) == <<"contract", n>>

\* getMediaKey(nft): uuidv4(), a new value at every call
FreshMediaKey(k) == <<"uuid", k>>

\* URL.createObjectURL(blob) for the body fetched from url
BlobUrl(url) == <<"blob:https:", "", "podplayr.xyz">> \o url

\* a plausible slip: the immediate call records a play as well
TrackRecordsImmediately(tracked, n, mediaKey, forceTrack, thresholdReached) ==
  [tracked |-> tracked \cup {mediaKey, LegacyKey(n)}, recorded |-> TRUE]

\* trackNFTPlay(nft, fid, options): the Set afterwards, and whether
\* originalTrackNFTPlay was called
TrackNFTPlay(tracked, n, mediaKey, forceTrack, thresholdReached) ==
  IF ~forceTrack /\ ~thresholdReached
    THEN [tracked |-> tracked \cup {mediaKey, LegacyKey(n)}, recorded |-> FALSE]
    ELSE [tracked |-> tracked, recorded |-> TRUE]

\* a plausible slip: the closure flag is not consulted
ThresholdIgnoringFlag(playTracked, currentTime, duration) ==
  duration > 0 /\ 100 * currentTime >= ThresholdPercent * duration

\* !playTracked && duration > 0 && currentTime >= duration * 0.25
ThresholdReached(playTracked, currentTime, duration) ==
  /\ ~playTracked
  /\ duration > 0
  /\ 100 * currentTime >= ThresholdPercent * duration

\* the first part of audioUrl.split('/') that is a 43-character id, or EMPTY
FirstTxId(url) ==
  LET hits == {i \in 1..Len(url) : IsTxId43(url[i])}
  IN  IF hits = {} THEN EMPTY
      ELSE <<url[CHOOSE k \in hits : \A j \in hits : k <= j]>>

\* tryNextUrl's finalUrl
FinalUrl(urlToTry) ==
  IF ~HasAudioExtension(urlToTry) /\ IncludesArweaveNet(urlToTry) /\ ~IncludesSlash(urlToTry)
    THEN Concat(urlToTry, <<".mp3">>)
    ELSE urlToTry

\* the closure state one handlePlayAudio call creates
NewSession(n, urls, kind) ==
  [ nft |-> n, kind |-> kind, audioUrls |-> urls,
    fallbackIndex |-> 0, currentUrlIndex |-> 0, playTracked |-> FALSE,
    fetch |-> "none", playPromise |-> "none",
    \* what follows records the run, it is no state of the code
    requested |-> <<>>, lastResorts |-> 0, exhausted |-> FALSE, crossings |-> 0,
    ownObserved |-> FALSE, foreignError |-> FALSE, afterFailed |-> FALSE ]

CurrentSession == Len(sessions)

Started(k) == [ev |-> "started", sess |-> k, during |-> k]

Counted(k, during) == [ev |-> "counted", sess |-> k, during |-> during]

\* the item playing before has seen every candidate fail
PreviousFailed ==
  /\ sessions # <<>>
  /\ sessions[Len(sessions)].exhausted

InitPlayer ==
  /\ isMobile = FALSE
  /\ cdnOn = FALSE
  /\ CacheInit
  /\ UrlIdle
  /\ PlayerIdle
  /\ ExtIdle

\* handlePlayAudio: no audio URL on the record
PlayWithoutUrl(n) ==
  /\ ItemRaw(n) = EMPTY
  /\ lastOp' = "noUrl"
  /\ UNCHANGED <<sessions, audio, videoListeners, currentlyPlaying,
                 immediatelyTrackedNFTs, playLog>>

\* handlePlayAudio: no usable candidate
PlayWithoutCandidates(n) ==
  /\ ItemRaw(n) # EMPTY
  /\ BuildAudioUrls(ItemRaw(n), isMobile, cdnOn) = <<>>
  /\ lastOp' = "noCandidates"
  /\ UNCHANGED <<sessions, audio, videoListeners, currentlyPlaying,
                 immediatelyTrackedNFTs, playLog>>

\* handlePlayAudio: the same NFT is clicked, handlePlayPause toggles
PlaySameItem(n) ==
  /\ ItemRaw(n) # EMPTY
  /\ BuildAudioUrls(ItemRaw(n), isMobile, cdnOn) # <<>>
  /\ currentlyPlaying = n
  /\ lastOp' = "toggle"
  /\ UNCHANGED <<sessions, audio, videoListeners, currentlyPlaying,
                 immediatelyTrackedNFTs, playLog>>

\* what every new session does before it branches: stop the current audio,
\* set the current item, update recently played ("started playing"), and
\* make the immediate trackNFTPlay call
StartSession(n, sess) ==
  LET k       == Len(sessions) + 1
      tracked == TrackNFTPlay(immediatelyTrackedNFTs, n, FreshMediaKey(k), FALSE, FALSE)
  IN  /\ ItemRaw(n) # EMPTY
      /\ BuildAudioUrls(ItemRaw(n), isMobile, cdnOn) # <<>>
      /\ currentlyPlaying # n
      /\ Len(sessions) < MaxSessions
      /\ sessions' = Append(sessions, [sess EXCEPT !.afterFailed = PreviousFailed])
      /\ currentlyPlaying' = n
      /\ immediatelyTrackedNFTs' = tracked.tracked
      /\ playLog' = playLog \o <<Started(k)>> \o
                      (IF tracked.recorded THEN <<Counted(k, k)>> ELSE <<>>)
      /\ lastOp' = "play"

\* handlePlayAudio: a video with embedded audio whose element is in the page
PlayVideo(n, videoPresent) ==
  LET urls == BuildAudioUrls(ItemRaw(n), isMobile, cdnOn)
      k    == Len(sessions) + 1
  IN  /\ IsVideoWithEmbeddedAudio(n) /\ videoPresent
      /\ StartSession(n, [NewSession(n, urls, "video") EXCEPT !.playPromise = "pending"])
      /\ videoListeners' = videoListeners \cup {k}
      /\ UNCHANGED audio

\* handlePlayAudio: an ar:// reference (the PODs branch), where useRef is
\* called outside a render: React rejects the call, the code expects a ref
PlayPods(n, hookThrows) ==
  LET urls == BuildAudioUrls(ItemRaw(n), isMobile, cdnOn)
      k    == Len(sessions) + 1
      rest == DropPrefix(ItemRaw(n), AR_SCHEME)
      arweaveUrl == Concat(Concat(Concat(ARWEAVE_NET, FirstSegment(rest)), SLASH),
                           RestJoined(rest))
  IN  /\ IsPodsUrl(ItemRaw(n))
      /\ IF hookThrows
           THEN /\ StartSession(n, NewSession(n, urls, "podsThrow"))
                /\ audio' = [audio EXCEPT !.onerror = [sess |-> k, kind |-> "fallback"]]
           ELSE /\ StartSession(n, [NewSession(n, urls, "pods")
                                      EXCEPT !.fetch = "first",
                                             !.requested = <<arweaveUrl>>])
                /\ audio' = [audio EXCEPT !.onerror = [sess |-> k, kind |-> "fallback"],
                                          !.listeners = @ \cup {k}]
      /\ UNCHANGED videoListeners

\* handlePlayAudio: any other reference, the sequential fallback system
PlayAudio(n, videoPresent) ==
  LET urls == BuildAudioUrls(ItemRaw(n), isMobile, cdnOn)
      k    == Len(sessions) + 1
  IN  /\ ~IsPodsUrl(ItemRaw(n))
      /\ ~(IsVideoWithEmbeddedAudio(n) /\ videoPresent)
      /\ StartSession(n, [NewSession(n, urls, "audio")
                            EXCEPT !.currentUrlIndex = 1,
                                   !.requested = <<FinalUrl(urls[1])>>])
      /\ audio' = [audio EXCEPT !.src = FinalUrl(urls[1]),
                                !.owner = k,
                                !.status = "loading",
                                !.onerror = [sess |-> k, kind |-> "tryNext"],
                                !.listeners = @ \cup {k}]
      /\ UNCHANGED videoListeners

\* the set ks as a sequence in increasing order (the order of attachment)
RECURSIVE InOrder(_)
InOrder(ks) ==
  IF ks = {} THEN <<>>
  ELSE LET k == CHOOSE x \in ks : \A y \in ks : x <= y
       IN  <<k>> \o InOrder(ks \ {k})

\* the listeners among ks whose threshold test passes for this event
Crossing(ks, currentTime, duration) ==
  {k \in ks : ThresholdReached(sessions[k].playTracked, currentTime, duration)}

\* originalTrackNFTPlay is called for the listeners in hits, in their order
RecordPlays(hits) ==
  /\ LET recorded == {k \in hits :
                          TrackNFTPlay(immediatelyTrackedNFTs, sessions[k].nft,
                                       FreshMediaKey(k), FALSE, TRUE).recorded}
     IN  playLog' = playLog \o
           [i \in 1..Cardinality(recorded) |->
              Counted(InOrder(recorded)[i], CurrentSession)]
  /\ UNCHANGED immediatelyTrackedNFTs

\* the event shows at least a quarter of a known duration
AtQuarter(currentTime, duration) ==
  duration > 0 /\ 100 * currentTime >= ThresholdPercent * duration

\* every crossing listener sets its flag and calls
\* trackNFTPlay(nft, fid, { thresholdReached: true })
RecordCrossings(listeners, currentTime, duration, ownMedia) ==
  /\ sessions' = [k \in 1..Len(sessions) |->
       LET seen == IF k \in listeners /\ AtQuarter(currentTime, duration)
                     THEN [sessions[k] EXCEPT
                             !.crossings = IF @ < MaxCrossings THEN @ + 1 ELSE @,
                             !.ownObserved = @ \/ /\ k \in ownMedia
                                                  /\ k = CurrentSession
                                                  /\ ~sessions[k].playTracked]
                     ELSE sessions[k]
       IN  IF k \in Crossing(listeners, currentTime, duration)
             THEN [seen EXCEPT !.playTracked = TRUE]
             ELSE seen]
  /\ RecordPlays(Crossing(listeners, currentTime, duration))

\* the audio element's loadedmetadata: the duration is known from here on
AudioLoaded ==
  /\ audio.status = "loading"
  /\ audio' = [audio EXCEPT !.status = "ready"]
  /\ lastOp' = "event"
  /\ UNCHANGED <<sessions, videoListeners, currentlyPlaying,
                 immediatelyTrackedNFTs, playLog>>

\* the audio element's timeupdate: every listener ever added runs
AudioTimeUpdate(currentTime) ==
  LET duration == IF audio.status = "ready" THEN MediaDuration ELSE 0
  IN  /\ audio.status \in {"loading", "ready"}
      /\ audio.status = "loading" => currentTime = 0
      /\ RecordCrossings(audio.listeners, currentTime, duration, {audio.owner})
      /\ lastOp' = "event"
      /\ UNCHANGED <<audio, videoListeners, currentlyPlaying>>

\* audio.onerror of the PODs branch and of a throwing call (lines 650-719)
FallbackHandler(s, code) ==
  LET sess         == sessions[s]
      fallbackUrls == Tail(sess.audioUrls)
      audioUrl     == sess.audioUrls[1]
      foreign      == sess.foreignError \/ audio.owner # s
  IN  IF Len(fallbackUrls) > sess.fallbackIndex
        THEN /\ sessions' = [sessions EXCEPT ![s] =
                  [sess EXCEPT !.fallbackIndex = @ + 1,
                               !.requested = Append(@, fallbackUrls[sess.fallbackIndex + 1]),
                               !.foreignError = foreign]]
             /\ audio' = [audio EXCEPT !.src = fallbackUrls[sess.fallbackIndex + 1],
                                       !.owner = s,
                                       !.status = "loading"]
      ELSE IF /\ IncludesArweaveNet(audioUrl)
              /\ code = "MEDIA_ERR_SRC_NOT_SUPPORTED"
              /\ FirstTxId(audioUrl) # EMPTY
        THEN /\ sess.lastResorts < MaxLastResort
             /\ sessions' = [sessions EXCEPT ![s] =
                  [sess EXCEPT !.lastResorts = @ + 1,
                               !.exhausted = TRUE,
                               !.requested = Append(@, Concat(ARWEAVE_NET, FirstTxId(audioUrl))),
                               !.foreignError = foreign]]
             /\ audio' = [audio EXCEPT !.src = Concat(ARWEAVE_NET, FirstTxId(audioUrl)),
                                       !.owner = s,
                                       !.status = "loading"]
      ELSE /\ sessions' = [sessions EXCEPT ![s] =
                  [sess EXCEPT !.exhausted = TRUE, !.foreignError = foreign]]
           /\ audio' = [audio EXCEPT !.status = "error"]

\* audio.onerror of the sequential fallback system (lines 834-841): tryNextUrl
TryNextHandler(s) ==
  LET sess == sessions[s]
      foreign == sess.foreignError \/ audio.owner # s
  IN  IF sess.currentUrlIndex < Len(sess.audioUrls)
        THEN /\ sessions' = [sessions EXCEPT ![s] =
                  [sess EXCEPT !.currentUrlIndex = @ + 1,
                               !.requested = Append(@, FinalUrl(sess.audioUrls[sess.currentUrlIndex + 1])),
                               !.foreignError = foreign]]
             /\ audio' = [audio EXCEPT !.src = FinalUrl(sess.audioUrls[sess.currentUrlIndex + 1]),
                                       !.owner = s,
                                       !.status = "loading"]
        ELSE /\ sessions' = [sessions EXCEPT ![s] =
                  [sess EXCEPT !.exhausted = TRUE, !.foreignError = foreign]]
             /\ audio' = [audio EXCEPT !.status = "error"]

\* the audio element's error event for the source being loaded: the one
\* handler assigned to audio.onerror runs
AudioError(code) ==
  /\ audio.status = "loading"
  /\ CASE audio.onerror.kind = "fallback" -> FallbackHandler(audio.onerror.sess, code)
       [] audio.onerror.kind = "tryNext"  -> TryNextHandler(audio.onerror.sess)
       [] OTHER -> /\ audio' = [audio EXCEPT !.status = "error"]
                   /\ UNCHANGED sessions
  /\ lastOp' = "event"
  /\ UNCHANGED <<videoListeners, currentlyPlaying, immediatelyTrackedNFTs, playLog>>

\* fetchAndCreateBlobUrl settles for session s: arweave.net first, then
\* arweave.dev; a fetched body becomes the element's source
BlobFetchDone(s, ok) ==
  LET sess   == sessions[s]
      rest   == DropPrefix(ItemRaw(sess.nft), AR_SCHEME)
      altUrl == Concat(Concat(Concat(ARWEAVE_DEV, FirstSegment(rest)), SLASH),
                       RestJoined(rest))
  IN  /\ sess.fetch \in {"first", "second"}
      /\ IF ok
           THEN /\ audio' = [audio EXCEPT
                      !.src = BlobUrl(sess.requested[Len(sess.requested)]),
                      !.owner = s,
                      !.status = "loading"]
                /\ sessions' = [sessions EXCEPT ![s] = [sess EXCEPT !.fetch = "done"]]
           ELSE /\ UNCHANGED audio
                /\ sessions' = [sessions EXCEPT ![s] =
                     IF sess.fetch = "first"
                       THEN [sess EXCEPT !.fetch = "second",
                                         !.requested = Append(@, altUrl)]
                       ELSE [sess EXCEPT !.fetch = "done"]]
      /\ lastOp' = "event"
      /\ UNCHANGED <<videoListeners, currentlyPlaying, immediatelyTrackedNFTs, playLog>>

\* the video element's timeupdate while the video item is the current one:
\* every timeUpdateHandler still attached runs
VideoTimeUpdate(currentTime, metadataLoaded) ==
  LET duration == IF metadataLoaded THEN MediaDuration ELSE 0
  IN  /\ sessions # <<>>
      /\ sessions[CurrentSession].kind = "video"
      /\ sessions[CurrentSession].playPromise # "rejected"
      /\ ~metadataLoaded => currentTime = 0
      /\ RecordCrossings(videoListeners, currentTime, duration, {CurrentSession})
      /\ lastOp' = "event"
      /\ UNCHANGED <<audio, videoListeners, currentlyPlaying>>

\* the video element's ended or error event: each attached endedHandler /
\* errorHandler runs its own cleanupVideoListeners
VideoEndedOrError ==
  /\ sessions # <<>>
  /\ sessions[CurrentSession].kind = "video"
  /\ videoListeners' = {}
  /\ lastOp' = "event"
  /\ UNCHANGED <<sessions, audio, currentlyPlaying, immediatelyTrackedNFTs, playLog>>

\* videoElement.play() settles for session s; a rejection cleans up
VideoPlaySettled(s, ok) ==
  /\ sessions[s].playPromise = "pending"
  /\ sessions' = [sessions EXCEPT ![s].playPromise =
                    IF ok THEN "resolved" ELSE "rejected"]
  /\ videoListeners' = IF ok THEN videoListeners ELSE videoListeners \ {s}
  /\ lastOp' = "event"
  /\ UNCHANGED <<audio, currentlyPlaying, immediatelyTrackedNFTs, playLog>>

\* the 30 minute cleanupTimeout of session s, cleared only by a rejection
VideoCleanupTimeout(s) ==
  /\ sessions[s].kind = "video"
  /\ sessions[s].playPromise # "rejected"
  /\ s \in videoListeners
  /\ videoListeners' = videoListeners \ {s}
  /\ lastOp' = "event"
  /\ UNCHANGED <<sessions, audio, currentlyPlaying, immediatelyTrackedNFTs, playLog>>

MediaErrorCodes == {"MEDIA_ERR_NETWORK", "MEDIA_ERR_SRC_NOT_SUPPORTED"}

Init == InitPlayer

\* the cache and the resolver run are not touched by the player
PlayerStep(A) == A /\ UNCHANGED <<envVars, cacheVars, urlVars, extVars>>

Next ==
  \/ \E n \in Items : PlayerStep(PlayWithoutUrl(n))
  \/ \E n \in Items : PlayerStep(PlayWithoutCandidates(n))
  \/ \E n \in Items : PlayerStep(PlaySameItem(n))
  \/ \E n \in Items, videoPresent \in BOOLEAN : PlayerStep(PlayVideo(n, videoPresent))
  \/ \E n \in Items, hookThrows \in BOOLEAN : PlayerStep(PlayPods(n, hookThrows))
  \/ \E n \in Items, videoPresent \in BOOLEAN : PlayerStep(PlayAudio(n, videoPresent))
  \/ PlayerStep(AudioLoaded)
  \/ \E t \in 0..MediaDuration : PlayerStep(AudioTimeUpdate(t))
  \/ \E code \in MediaErrorCodes : PlayerStep(AudioError(code))
  \/ \E s \in 1..Len(sessions), ok \in BOOLEAN : PlayerStep(BlobFetchDone(s, ok))
  \/ \E t \in 0..MediaDuration, loaded \in BOOLEAN : PlayerStep(VideoTimeUpdate(t, loaded))
  \/ PlayerStep(VideoEndedOrError)
  \/ \E s \in 1..Len(sessions), ok \in BOOLEAN : PlayerStep(VideoPlaySettled(s, ok))
  \/ \E s \in 1..Len(sessions) : PlayerStep(VideoCleanupTimeout(s))

Spec == Init /\ [][Next]_vars

(***************************************************************************)
(* Properties of the playback sessions                                     *)
(***************************************************************************)
SessionIds == 1..Len(sessions)

\* the number of counted-play calls made for session k
CountedFor(k) ==
  Cardinality({i \in 1..Len(playLog) :
                 playLog[i].ev = "counted" /\ playLog[i].sess = k})

\* C2: within one session, however many time updates at or past a quarter of
\* the duration its listener sees, the counted-play call is made exactly
\* once, and the session's flag goes from false to true once and is never
\* reset.
C2_ThresholdFiresOnce ==
  /\ [](\A k \in SessionIds :
          /\ sessions[k].playTracked <=> sessions[k].crossings >= 1
          /\ CountedFor(k) = IF sessions[k].crossings >= 1 THEN 1 ELSE 0)
  /\ [][\A k \in SessionIds : sessions[k].playTracked => sessions'[k].playTracked]_vars

C2_Witness ==
  \E k \in SessionIds :
    /\ sessions[k].crossings = MaxCrossings
    /\ sessions[k].playTracked
    /\ CountedFor(k) = 1

\* C3: after a switch from one item to another, no handler of the earlier
\* session acts on an event of the later one: every counted-play call is made
\* by the session that is current when the event is raised.
C3_NoStaleListener ==
  \A i \in 1..Len(playLog) :
    playLog[i].ev = "counted" => playLog[i].sess = playLog[i].during

\* C4: one attempt walks its candidates in a single pass: no candidate is
\* requested twice, at most one bare-transaction request is made, and nothing
\* is assigned after that.
C4_SinglePass ==
  \A k \in SessionIds :
    /\ sessions[k].lastResorts <= 1
    /\ NoDuplicates(SubSeq(sessions[k].requested, 1,
                           Len(sessions[k].requested) - sessions[k].lastResorts))

\* C6: a play is counted for a session exactly when, in that session and on
\* its own media, a time update at or past a quarter of a known duration was
\* observed before the session had crossed.
C6_CountedIffOwnQuarter ==
  \A k \in SessionIds : CountedFor(k) >= 1 <=> sessions[k].ownObserved

\* C7: the counted-play call of a session is made at most once, and only
\* after that session's "started playing" notification.
C7_CountedAfterStarted ==
  \A k \in SessionIds :
    /\ CountedFor(k) <= 1
    /\ \A j \in 1..Len(playLog) :
         (playLog[j].ev = "counted" /\ playLog[j].sess = k) =>
           \E i \in 1..(j - 1) : playLog[i] = Started(k)

C7_Witness ==
  \E k \in SessionIds, i, j \in 1..Len(playLog) :
    /\ i < j
    /\ playLog[i] = Started(k)
    /\ playLog[j].ev = "counted" /\ playLog[j].sess = k

\* C8: the session started after a failed item begins with its own candidate
\* list, fallback positions at the start and an unset flag, and no error of
\* the failed item's sources ever drives its handler.
C8_FreshAfterFailure ==
  \A k \in SessionIds :
    sessions[k].afterFailed =>
      /\ sessions[k].audioUrls = BuildAudioUrls(ItemRaw(sessions[k].nft), isMobile, cdnOn)
      /\ (lastOp = "play" /\ k = CurrentSession) =>
           /\ sessions[k].fallbackIndex = 0
           /\ sessions[k].currentUrlIndex <= 1
           /\ ~sessions[k].playTracked
      /\ ~sessions[k].foreignError

\* C9: the sources a session requests are its candidates in list order:
\* the i-th request is candidates[i], none skipped, repeated or reordered.
C9_LeftToRight ==
  \A k \in SessionIds :
    /\ Len(sessions[k].requested) <= Len(sessions[k].audioUrls)
    /\ \A i \in 1..Len(sessions[k].requested) :
         sessions[k].requested[i] = sessions[k].audioUrls[i]

(***************************************************************************)
(* Queues: next / previous of useAudioPlayer (unnamed/part_001) and of     *)
(* useNFTQueue (components/player/hooks/useNFTQueue.ts)                    *)
(***************************************************************************)
\* the records a page hands over as a queue
QueueItems == {"A", "P", "V"}

\* longest queue of a run
MaxQueueLen == 3

\* the page lists: every arrangement of distinct records, the empty one included
QueueLists ==
  {q \in UNION {[1..n -> QueueItems] : n \in 0..MaxQueueLen} :
     \A i, j \in 1..Len(q) : i # j => q[i] # q[j]}

QueueTypes == {"", "topPlayed"}

\* list.findIndex(nft => nft.contract === current.contract &&
\* nft.tokenId === current.tokenId): 0-based, or -1
FindIndexByToken(list, current) ==
  LET hits == {i \in 1..Len(list) : list[i] = current}
  IN  IF hits = {} THEN -1
      ELSE (CHOOSE k \in hits : \A j \in hits : k <= j) - 1

\* currentNFTQueue.findIndex(nft => getMediaKey(nft) === getMediaKey(currentNFT)):
\* for the i-th record visited, two calls of getMediaKey, each a new uuidv4()
FindIndexByMediaKey(list, current) ==
  LET hits == {i \in 1..Len(list) : FreshMediaKey(2 * i - 1) = FreshMediaKey(2 * i)}
  IN  IF hits = {} THEN -1
      ELSE (CHOOSE k \in hits : \A j \in hits : k <= j) - 1

\* list[index] of a JavaScript array
At(list, index) == list[index + 1]

Nav(impl, op, queue, played) ==
  [impl |-> impl, op |-> op, queue |-> queue, current |-> currentPlayingNFT,
   played |-> played]

\* handlePlayAudio(nft, context) as far as the queues see it: the queue
\* context, the early returns, the same-item toggle and setCurrentPlayingNFT
QueuePlayAudio(nft, hasContext, queue, type) ==
  /\ currentQueue' = IF hasContext THEN queue
                     ELSE IF currentQueue = <<>> THEN <<nft>>
                     ELSE currentQueue
  /\ queueType' = IF hasContext THEN (IF type = "" THEN "default" ELSE type)
                  ELSE IF currentQueue = <<>> THEN "single"
                  ELSE queueType
  /\ currentPlayingNFT' =
       IF \/ ItemRaw(nft) = EMPTY
          \/ BuildAudioUrls(ItemRaw(nft), isMobile, cdnOn) = <<>>
          \/ currentPlayingNFT = nft
         THEN currentPlayingNFT
         ELSE nft

\* a card of a page is played, with the page's list as context or without
PlayFromPage(nft, hasContext, queue, type) ==
  /\ hasContext => nft \in {queue[i] : i \in 1..Len(queue)}
  /\ ~hasContext => queue = <<>> /\ type = ""
  /\ QueuePlayAudio(nft, hasContext, queue, type)
  /\ nav' = Nav("page", "play", queue, nft)
  /\ UNCHANGED <<windowNftList, currentNFTQueue>>

\* useNFTQueue.updateQueue
UpdateQueue(nfts) ==
  /\ currentNFTQueue # nfts \/ windowNftList # nfts
  /\ currentNFTQueue' = nfts
  /\ windowNftList' = nfts
  /\ nav' = Nav("useNFTQueue", "update", nfts, "none")
  /\ UNCHANGED <<currentQueue, queueType, currentPlayingNFT>>

\* useAudioPlayer.handlePlayNext
HookPlayNext ==
  LET currentIndex == FindIndexByToken(currentQueue, currentPlayingNFT)
      nextNFT      == At(currentQueue, (currentIndex + 1) % Len(currentQueue))
  IN  IF currentPlayingNFT = "none" \/ currentQueue = <<>> \/ currentIndex = -1
        THEN /\ nav' = Nav("useAudioPlayer", "next", currentQueue, "none")
             /\ UNCHANGED <<currentQueue, queueType, windowNftList,
                            currentNFTQueue, currentPlayingNFT>>
        ELSE /\ QueuePlayAudio(nextNFT, TRUE, currentQueue, queueType)
             /\ nav' = Nav("useAudioPlayer", "next", currentQueue, nextNFT)
             /\ UNCHANGED <<windowNftList, currentNFTQueue>>

\* useAudioPlayer.handlePlayPrevious: the queue is window.nftList
HookPlayPrevious ==
  LET currentPageQueue == windowNftList
      currentIndex == FindIndexByToken(currentPageQueue, currentPlayingNFT)
      prevNFT      == At(currentPageQueue,
                         (currentIndex - 1 + Len(currentPageQueue)) % Len(currentPageQueue))
  IN  IF currentPlayingNFT = "none" \/ currentPageQueue = <<>> \/ currentIndex = -1
        THEN /\ nav' = Nav("useAudioPlayer", "previous", currentPageQueue, "none")
             /\ UNCHANGED <<currentQueue, queueType, windowNftList,
                            currentNFTQueue, currentPlayingNFT>>
        ELSE \* setCurrentQueue(currentPageQueue), then handlePlayAudio(prevNFT),
             \* whose closure still holds the queue of the last render
             /\ currentQueue' = IF currentQueue = <<>> THEN <<prevNFT>>
                                ELSE currentPageQueue
             /\ queueType' = IF currentQueue = <<>> THEN "single" ELSE queueType
             /\ currentPlayingNFT' =
                  IF \/ BuildAudioUrls(ItemRaw(prevNFT), isMobile, cdnOn) = <<>>
                     \/ currentPlayingNFT = prevNFT
                    THEN currentPlayingNFT ELSE prevNFT
             /\ nav' = Nav("useAudioPlayer", "previous", currentPageQueue, prevNFT)
             /\ UNCHANGED <<windowNftList, currentNFTQueue>>
\* useNFTQueue.handlePlayNext(currentNFT); onPlayNFT is the page's play handler
QueuePlayNext ==
  LET currentNFT   == currentPlayingNFT
      currentIndex == FindIndexByMediaKey(currentNFTQueue, currentNFT)
      nextNFT      == At(currentNFTQueue, (currentIndex + 1) % Len(currentNFTQueue))
  IN  IF currentNFT = "none" \/ currentNFTQueue = <<>> \/ currentIndex = -1
        THEN /\ nav' = Nav("useNFTQueue", "next", currentNFTQueue, "none")
             /\ UNCHANGED <<currentQueue, queueType, windowNftList,
                            currentNFTQueue, currentPlayingNFT>>
        ELSE /\ QueuePlayAudio(nextNFT, FALSE, <<>>, "")
             /\ nav' = Nav("useNFTQueue", "next", currentNFTQueue, nextNFT)
             /\ UNCHANGED <<windowNftList, currentNFTQueue>>

\* useNFTQueue.handlePlayPrevious(currentNFT)
QueuePlayPrevious ==
  LET currentNFT   == currentPlayingNFT
      currentIndex == FindIndexByMediaKey(currentNFTQueue, currentNFT)
      prevNFT      == At(currentNFTQueue,
                         (currentIndex - 1 + Len(currentNFTQueue)) % Len(currentNFTQueue))
  IN  IF currentNFT = "none" \/ currentNFTQueue = <<>> \/ currentIndex = -1
        THEN /\ nav' = Nav("useNFTQueue", "previous", currentNFTQueue, "none")
             /\ UNCHANGED <<currentQueue, queueType, windowNftList,
                            currentNFTQueue, currentPlayingNFT>>
        ELSE /\ QueuePlayAudio(prevNFT, FALSE, <<>>, "")
             /\ nav' = Nav("useNFTQueue", "previous", currentNFTQueue, prevNFT)
             /\ UNCHANGED <<windowNftList, currentNFTQueue>>

InitQueue == EnvIdle /\ CacheInit /\ UrlIdle /\ PlayerIdle /\ ExtIdle

QueueStep(A) ==
  A /\ UNCHANGED <<envVars, cacheVars, urlVars, playerVars, playback, auxVars>>

NextQueue ==
  \/ \E nft \in QueueItems, hasContext \in BOOLEAN, queue \in QueueLists,
        type \in QueueTypes : QueueStep(PlayFromPage(nft, hasContext, queue, type))
  \/ \E nfts \in QueueLists : QueueStep(UpdateQueue(nfts))
  \/ QueueStep(HookPlayNext)
  \/ QueueStep(HookPlayPrevious)
  \/ QueueStep(QueuePlayNext)
  \/ QueueStep(QueuePlayPrevious)

SpecQueue == InitQueue /\ [][NextQueue]_vars

\* the 0-based place of the current record in the queue the call read, or -1
PlaceInQueue == FindIndexByToken(nav.queue, nav.current)

\* C11: a next call on a queue that holds the current record at index i asks
\* for the record at (i + 1) mod N, a previous call for the one at
\* (i - 1 + N) mod N, in useAudioPlayer and in useNFTQueue alike.
C11_Wraparound ==
  (nav.op \in {"next", "previous"} /\ PlaceInQueue # -1) =>
    nav.played = At(nav.queue,
                    IF nav.op = "next"
                      THEN (PlaceInQueue + 1) % Len(nav.queue)
                      ELSE (PlaceInQueue - 1 + Len(nav.queue)) % Len(nav.queue))

(***************************************************************************)
(* play() and pause() on the audio element of useAudioPlayer and on the    *)
(* video element it shares with Player.tsx.  A media element keeps a list  *)
(* of pending play promises: they are resolved together when playback      *)
(* starts, rejected together with AbortError by pause(), and rejected with *)
(* NotSupportedError when the source fails.                                *)
(***************************************************************************)
\* the play() call sites, in the order their reactions are run
Sites == <<"toggle", "playAudio", "fallback", "videoBranch", "effect",
           "toggleVideo", "newVideo">>

\* record-play promises in flight, and failures logged, that a run follows
MaxRecordPending == 2
MaxRecordErrors == 2

\* currentTime of the time updates a run sees: the start and the end
TimeSamples == {0, MediaDuration}

\* what the then/catch callbacks of a play() promise do at each call site:
\* whether logger.error / console.error is called, and the setIsPlaying call
Reaction(site, outcome) ==
  CASE site = "toggle" ->       \* handlePlayPause, part_001:218-221
         IF outcome = "resolved" THEN [error |-> FALSE, playing |-> "keep"]
         ELSE [error |-> TRUE, playing |-> "false"]
    [] site = "playAudio" ->    \* handlePlayAudio, part_001:939-970
         IF outcome = "resolved" THEN [error |-> FALSE, playing |-> "true"]
         ELSE IF outcome = "AbortError" THEN [error |-> FALSE, playing |-> "keep"]
         ELSE [error |-> TRUE, playing |-> "false"]
    [] site = "videoBranch" ->  \* handlePlayAudio, part_001:604-616
         IF outcome = "resolved" THEN [error |-> FALSE, playing |-> "true"]
         ELSE [error |-> TRUE, playing |-> "false"]
    [] site \in {"fallback", "toggleVideo"} ->  \* part_001:676-680, 225-227
         [error |-> outcome # "resolved", playing |-> "keep"]
    [] OTHER ->                 \* Player.tsx:93-105, part_001:946-951
         [error |-> outcome \notin {"resolved", "AbortError"}, playing |-> "keep"]

\* element.play() at a call site: the promise joins the pending ones; a
\* paused element leaves the paused state and a play event is queued
Play(st, el, site) ==
  [st EXCEPT !.pending = @ \cup {[el |-> el, site |-> site]},
             !.paused[el] = FALSE,
             !.events = IF st.paused[el] THEN Append(@, [el |-> el, ev |-> "play"])
                        ELSE @]

Unsettled(st, el) == \E p \in st.pending : p.el = el

\* every pending promise of el settles the same way: the callbacks are queued
\* as microtasks, call site by call site
SettleAll(st, el, outcome) ==
  LET sites == SelectSeq(Sites, LAMBDA s : [el |-> el, site |-> s] \in st.pending)
  IN  [st EXCEPT
         !.pending = {p \in @ : p.el # el},
         !.micro = @ \o [i \in 1..Len(sites) |->
                           [el |-> el, site |-> sites[i], outcome |-> outcome]]]

\* element.pause() at a call site: an element that is not paused becomes
\* paused, its pending promises are rejected with AbortError and a pause
\* event is queued
Pause(st, el, site) ==
  LET called == [st EXCEPT !.pauses = @ \cup {[el |-> el, site |-> site,
                                               unsettled |-> Unsettled(st, el)]}]
  IN  IF st.paused[el] THEN called
      ELSE [SettleAll([called EXCEPT !.paused[el] = TRUE], el, "AbortError")
              EXCEPT !.events = Append(@, [el |-> el, ev |-> "pause"])]

\* the callbacks of one settled promise run
Settle(st, job) ==
  LET r    == Reaction(job.site, job.outcome)
      now  == IF r.playing = "true" THEN TRUE
              ELSE IF r.playing = "false" THEN FALSE
              ELSE st.isPlaying
      done == [st EXCEPT
                !.isPlaying = now,
                !.activePlayPromiseRef = IF job.site = "effect" THEN FALSE ELSE @,
                !.pauseWaiting = IF job.site = "effect" THEN FALSE ELSE @,
                !.videoHandlers = IF job.site = "videoBranch" /\ job.outcome # "resolved"
                                    THEN FALSE ELSE @,
                !.aborts = IF job.outcome = "AbortError"
                             THEN @ \cup {[site |-> job.site, error |-> r.error,
                                           flipped |-> now # st.isPlaying]}
                             ELSE @]
  IN  CASE job.site = "toggle" ->      \* .then(() => video.play()) after the catch
             Play(done, "video", "toggleVideo")
        [] job.site = "playAudio" /\ job.outcome = "resolved" ->
             Play(done, "video", "newVideo")
        [] job.site = "effect" /\ st.pauseWaiting ->  \* Player.tsx:110-117
             Pause(done, "video", "effectChained")
        [] OTHER -> done

\* the microtask queue is drained
RECURSIVE RunMicrotasks(_)
RunMicrotasks(st) ==
  IF st.micro = <<>> THEN st
  ELSE RunMicrotasks(Settle([st EXCEPT !.micro = Tail(@)], Head(st.micro)))

\* the queued play and pause events are dispatched: setIsPlaying(true / false)
\* on the audio element, and on the video element while its handlers are attached
RECURSIVE RunEvents(_)
RunEvents(st) ==
  IF st.events = <<>> THEN st
  ELSE LET e == Head(st.events)
       IN  RunEvents([st EXCEPT
                        !.events = Tail(@),
                        !.isPlaying = IF e.el = "audio" \/ st.videoHandlers
                                        THEN e.ev = "play" ELSE @])

\* a handler has returned: microtasks first, then the queued events
Finish(st) == RunEvents(RunMicrotasks(st))

\* the state a handler starts from: the record of the last handler is reset
Begin(op) == [playback EXCEPT !.pauses = {}, !.aborts = {}, !.op = op]
\* a plausible slip: the failed write stops the playback
OnRecordRejectedStopping(st) ==
  [st EXCEPT !.recordErrors = @ + 1, !.isPlaying = FALSE,
             !.paused["audio"] = TRUE]

\* .catch(error => audioLogger.error('Error tracking NFT play after 25%
\* threshold:', error)) on the promise trackNFTPlay returns
OnRecordRejected(st) == [st EXCEPT !.recordErrors = @ + 1]

\* handlePlayPause
HandlePlayPause ==
  playback' = Finish(
    IF playback.isPlaying
      THEN Pause(Pause(Begin("toggle"), "audio", "toggle"), "video", "toggle")
      ELSE Play(Begin("toggle"), "audio", "toggle"))

\* handlePlayAudio for another item: stop the current audio and video, await
\* the immediate trackNFTPlay, then play the video element (a video with
\* embedded audio) or the audio element
HandlePlayItem(kind) ==
  LET stopped == RunMicrotasks(Pause(Pause(Begin("play"), "audio", "stopCurrent"),
                                     "video", "stopCurrent"))
      fresh   == [stopped EXCEPT !.playTracked = FALSE, !.audioProgress = 0]
  IN  playback' = Finish(
        IF kind = "video"
          THEN Play([fresh EXCEPT !.videoHandlers = TRUE], "video", "videoBranch")
          ELSE Play(Pause(fresh, "audio", "reset"), "audio", "playAudio"))

\* audio.onerror with a fallback left: the failed source rejects the pending
\* promises, the handler pauses, assigns the next URL and plays
AudioErrorFallback ==
  /\ ~playback.paused["audio"]
  /\ playback' = Finish(
       Play(Pause(SettleAll(Begin("error"), "audio", "NotSupportedError"),
                  "audio", "fallback"),
            "audio", "fallback"))

\* playback starts on el: its pending promises resolve
ElementPlaying(el) ==
  /\ Unsettled(playback, el)
  /\ playback' = Finish(SettleAll(Begin("playing"), el, "resolved"))

\* the video source fails: the pending promises are rejected, and errorHandler
\* runs while the handlers are attached
VideoFails ==
  LET rejected == RunMicrotasks(SettleAll(Begin("videoError"), "video",
                                          "NotSupportedError"))
  IN  /\ Unsettled(playback, "video")
      /\ playback' = Finish(
           IF rejected.videoHandlers
             THEN [rejected EXCEPT !.isPlaying = FALSE, !.videoHandlers = FALSE]
             ELSE rejected)

\* the video synchronization effect of Player.tsx (deps: isPlaying, nft, progress)
PlayerEffect ==
  LET st == Begin("effect") IN
  playback' = Finish(
    IF st.isPlaying
      THEN IF ~st.paused["video"] THEN st
           ELSE [Play(st, "video", "effect") EXCEPT !.activePlayPromiseRef = TRUE]
      ELSE IF st.activePlayPromiseRef THEN [st EXCEPT !.pauseWaiting = TRUE]
           ELSE Pause(st, "video", "effect"))

\* timeupdate of the playing audio element: progress, and at the threshold
\* trackNFTPlay(nft, fid, { thresholdReached: true })
PlaybackTimeUpdate(currentTime) ==
  LET st      == [Begin("timeupdate") EXCEPT !.audioProgress = currentTime]
      crosses == ThresholdReached(st.playTracked, currentTime, MediaDuration)
  IN  /\ ~playback.paused["audio"] /\ ~Unsettled(playback, "audio")
      /\ crosses => playback.recordPending < MaxRecordPending
      /\ playback' = IF crosses
                       THEN [st EXCEPT !.playTracked = TRUE, !.recordPending = @ + 1]
                       ELSE st

\* the promise of originalTrackNFTPlay settles
RecordPlaySettles(ok) ==
  LET st == [Begin(IF ok THEN "recorded" ELSE "recordFailed")
               EXCEPT !.recordPending = @ - 1]
  IN  /\ playback.recordPending > 0
      /\ ~ok => playback.recordErrors < MaxRecordErrors
      /\ playback' = IF ok THEN st ELSE OnRecordRejected(st)

InitPlayback == EnvIdle /\ CacheInit /\ UrlIdle /\ PlayerIdle /\ ExtIdle

PlaybackStep(A) ==
  A /\ UNCHANGED <<envVars, cacheVars, urlVars, playerVars, queueVars, auxVars>>

NextPlayback ==
  \/ PlaybackStep(HandlePlayPause)
  \/ \E kind \in {"audio", "video"} : PlaybackStep(HandlePlayItem(kind))
  \/ PlaybackStep(AudioErrorFallback)
  \/ \E el \in {"audio", "video"} : PlaybackStep(ElementPlaying(el))
  \/ PlaybackStep(VideoFails)
  \/ PlaybackStep(PlayerEffect)
  \/ \E t \in TimeSamples : PlaybackStep(PlaybackTimeUpdate(t))
  \/ \E ok \in BOOLEAN : PlaybackStep(RecordPlaySettles(ok))

SpecPlayback == InitPlayback /\ [][NextPlayback]_vars

\* C12: no pause() is invoked on an element while a play() promise of that
\* element is still unsettled, whichever handler pauses.
C12_PauseAfterSettle == \A p \in playback.pauses : ~p.unsettled

\* C13: a play() promise rejected with AbortError is not logged as an error
\* and its callbacks leave isPlaying as it was, at every play() call site.
C13_AbortIsBenign == \A a \in playback.aborts : ~a.error /\ ~a.flipped

\* C15: when the record-play promise of a threshold crossing is rejected, the
\* failure is logged and nothing else changes: isPlaying, the elements, the
\* pending promises, the progress and the session's flag stay as they were.
C15_RecordFailureSwallowed ==
  [][playback'.op = "recordFailed" =>
       /\ playback'.recordErrors = playback.recordErrors + 1
       /\ playback'.isPlaying = playback.isPlaying
       /\ playback'.paused = playback.paused
       /\ playback'.pending = playback.pending
       /\ playback'.audioProgress = playback.audioProgress
       /\ playback'.playTracked = playback.playTracked]_vars

\* the write failed while the item was playing, and it still plays
C15_Witness ==
  /\ playback.op = "recordFailed"
  /\ playback.recordErrors >= 1
  /\ playback.isPlaying /\ ~playback.paused["audio"]
  /\ playback.playTracked

(***************************************************************************)
(* Resolver calls: processMediaUrl on a raw reference and on its own       *)
(* output, and the audioUrls list of handlePlayAudio built call after call.*)
(***************************************************************************)
MaxBuilds == 3

MediaTypes == {"audio", "image"}

\* the references of RawUrls, an IPFS reference with a sub-path, the empty
\* string and the bare schemes
ResolverInputs ==
  RawUrls \cup { EMPTY,
                 <<"ar:", "", "">>,
                 <<"ipfs:", "", "">>,
                 <<"ipfs:", "", CID_A, "album", "track.mp3">> }

\* the references handlePlayAudio is called with, one of each form
BuildInputs == {
  <<"ar:", "", TX_A, "track.mp3">>,
  <<"ar:", "", TX_A>>,
  <<"ipfs:", "", CID_A>>,
  <<"https:", "", "gateway.pinata.cloud", "ipfs", CID_A>>,
  <<"https:", "", "example.com", "track.mp3">>,
  <<"https:", "", "arweave.net", TX_A, "track.mp3">>,
  <<CID_A>>,
  <<"undefined">> }

\* a plausible slip: the array outlives the call
KeptAudioUrls(previous) == previous

\* const audioUrls: string[] = [] : every call starts from a new array
NewAudioUrls(previous) == <<>>

\* processMediaUrl(raw, undefined, mediaType)
ResolveUrl(raw, mediaType) ==
  resolving' = [resolving EXCEPT
                  !.op = "resolve", !.raw = raw, !.mediaType = mediaType,
                  !.out = ProcessMediaUrl(raw, DEFAULT_FALLBACK, mediaType,
                                          isMobile, cdnOn),
                  !.again = NULL]

\* the https output is handed to processMediaUrl once more
ResolveAgain ==
  /\ resolving.op = "resolve"
  /\ StartsWith(resolving.out, HTTPS_SCHEME)
  /\ resolving' = [resolving EXCEPT
                     !.op = "again",
                     !.again = ProcessMediaUrl(resolving.out, DEFAULT_FALLBACK,
                                               resolving.mediaType, isMobile, cdnOn)]

\* handlePlayAudio builds audioUrls for an item whose audio reference is raw
BuildCandidates(raw) ==
  LET list == NewAudioUrls(resolving.audioUrls)
                \o BuildAudioUrls(raw, isMobile, cdnOn)
      first == resolving.builds = 0
  IN  /\ resolving.builds < MaxBuilds
      /\ resolving' = [resolving EXCEPT
                         !.op = "build", !.raw = raw,
                         !.out = NULL, !.again = NULL,
                         !.audioUrls = list,
                         !.firstRaw = IF first THEN raw ELSE @,
                         !.firstUrls = IF first THEN list ELSE @,
                         !.builds = @ + 1,
                         !.others = @ \/ (~first /\ raw # resolving.firstRaw)]

InitResolve ==
  /\ isMobile \in BOOLEAN
  /\ cdnOn \in BOOLEAN
  /\ CacheInit /\ UrlIdle /\ PlayerIdle /\ ExtIdle

ResolveStep(A) ==
  A /\ UNCHANGED <<envVars, cacheVars, urlVars, playerVars, queueVars, playback,
                   preload, lateVars>>

NextResolve ==
  \/ \E raw \in ResolverInputs, mediaType \in MediaTypes :
       ResolveStep(ResolveUrl(raw, mediaType))
  \/ ResolveStep(ResolveAgain)
  \/ \E raw \in BuildInputs : ResolveStep(BuildCandidates(raw))

SpecResolve == InitResolve /\ [][NextResolve]_vars

\* a reference of a form the resolver documents: ar://<txid>[/<path>],
\* ipfs://<cid>[/<path>], an https URL with a host, a bare CID
SupportedUrl(raw) ==
  \/ /\ \/ StartsWith(raw, AR_SCHEME)
        \/ StartsWith(raw, IPFS_SCHEME)
        \/ StartsWith(raw, HTTPS_SCHEME)
     /\ raw[3] # ""
     /\ ~IncludesCdnBase(raw)
  \/ IsDirectCid(raw)

\* C14: with the CDN rewrite off, resolving the https output of the resolver
\* again yields the same URL, for every supported raw reference and the same
\* media type; and an https://arweave.net/... reference is returned unchanged.
C14_Idempotent ==
  (resolving.op = "again" /\ ~cdnOn /\ SupportedUrl(resolving.raw)) =>
    /\ resolving.again = resolving.out
    /\ StartsWith(resolving.raw, ARWEAVE_NET) => resolving.out = resolving.raw

\* a string no branch of the resolver recognises: no scheme or no host, and
\* no bare CID
Unrecognised(raw) ==
  raw # EMPTY /\ NewUrlHostname(raw) = Thrown /\ ~IsDirectCid(raw)

\* C18: no resolver call raises, whatever the input string: every call
\* returns a string, the empty input returns the placeholder, and (with the
\* CDN rewrite off) a string the resolver does not recognise is returned
\* unchanged. The audioUrls list holds returned strings only.
C18_NeverRaises ==
  /\ resolving.out # Thrown
  /\ resolving.again # Thrown
  /\ \A i \in 1..Len(resolving.audioUrls) : resolving.audioUrls[i] # Thrown
  /\ resolving.op = "resolve" =>
       /\ resolving.out # NULL
       /\ resolving.raw = EMPTY => resolving.out = DEFAULT_FALLBACK
       /\ (~cdnOn /\ Unrecognised(resolving.raw)) => resolving.out = resolving.raw

\* "https://" has no host: new URL throws inside extractIPFSHash, the catch
\* swallows it and the string is returned as it came
C18_Witness ==
  /\ resolving.op = "resolve"
  /\ resolving.raw = <<"https:", "", "">>
  /\ UrlParseThrows(resolving.raw)
  /\ resolving.out = resolving.raw

\* the CID of an IPFS reference (ipfs://<cid>, a gateway URL, a bare CID), or NULL
IpfsCid(raw) ==
  LET hash == ExtractIPFSHash(raw)
  IN  IF hash # NULL /\ hash # Thrown /\ IsDirectCid(hash) THEN hash ELSE NULL

\* the place of u in list, 0 when it is not there
PlaceOf(list, u) ==
  IF Includes(list, u) THEN CHOOSE i \in 1..Len(list) : list[i] = u ELSE 0

\* C19: with the CDN rewrite off, the audioUrls list built for an IPFS
\* reference holds every configured gateway with the CID appended, in the
\* order of IPFS_GATEWAYS.
C19_EveryGateway ==
  (resolving.op = "build" /\ ~cdnOn /\ IpfsCid(resolving.raw) # NULL) =>
    /\ \A g \in 1..Len(IPFS_GATEWAYS) :
         Includes(resolving.audioUrls,
                  Concat(IPFS_GATEWAYS[g], IpfsCid(resolving.raw)))
    /\ \A g, h \in 1..Len(IPFS_GATEWAYS) :
         g < h => PlaceOf(resolving.audioUrls,
                          Concat(IPFS_GATEWAYS[g], IpfsCid(resolving.raw)))
                    < PlaceOf(resolving.audioUrls,
                              Concat(IPFS_GATEWAYS[h], IpfsCid(resolving.raw)))

MaxPreloadLen == 3

\* preloadCount: number = 3
DefaultPreloadCount == 3

\* Math.min(2, preloadCount)
CellularCap == 2

\* the chunk size, scaled to the cache budget of the model
PreloadChunkSize == 2

\* V1 carries metadata.animation_url, N does not
PreloadItems == {"V1", "N"}

PreloadLists ==
  UNION {[1..n -> PreloadItems] : n \in 0..MaxPreloadLen}

\* the preloadCount argument: <<>> when the caller leaves it out
PreloadCountArgs == {<<>>, <<1>>, <<2>>, <<4>>}

PreloadOutcomes == {"ok", "networkError", "nonOk"}

\* nextNFT.metadata?.animation_url
HasAnimationUrl(nft) == nft = "V1"

\* processMediaUrl(nft.metadata.animation_url)
ProcessedUrl(nft) == "u1"

\* a plausible slip: the requested count is used whatever the connection
UncappedPreloadCount(isCellular, preloadCount) == preloadCount

\* const actualPreloadCount = isCellular ? Math.min(2, preloadCount) : preloadCount
ActualPreloadCount(isCellular, preloadCount) ==
  IF isCellular
    THEN IF CellularCap < preloadCount THEN CellularCap ELSE preloadCount
    ELSE preloadCount

\* the for loop: the queue positions it looks at, and the preloads it starts
\* without awaiting them
RECURSIVE PreloadLoop(_, _, _, _, _, _)
PreloadLoop(nfts, currentIndex, actual, isCellular, i, run) ==
  IF i > actual THEN run
  ELSE
    LET nextIndex == (currentIndex + i) % Len(nfts)
        nextNFT   == At(nfts, nextIndex)
        started   == [position |-> nextIndex, nft |-> nextNFT,
                      kind |-> IF isCellular THEN "metadata" ELSE "chunk",
                      state |-> "pending"]
    IN  PreloadLoop(nfts, currentIndex, actual, isCellular, i + 1,
                    [positions |-> Append(run.positions, nextIndex),
                     jobs |-> IF HasAnimationUrl(nextNFT)
                                THEN Append(run.jobs, started)
                                ELSE run.jobs])

\* a plausible slip: one failure cancels the preloads that are still pending
OnPreloadFailedAborting(jobs, j) ==
  [k \in 1..Len(jobs) |->
     IF k = j THEN [jobs[k] EXCEPT !.state = "failed"]
     ELSE IF jobs[k].state = "pending" THEN [jobs[k] EXCEPT !.state = "aborted"]
     ELSE jobs[k]]

\* catch (error) { console.error(...) } inside the preload of one item
OnPreloadFailed(jobs, j) == [jobs EXCEPT ![j].state = "failed"]

\* predictivePreload(nfts, currentIndex, preloadCount)
PredictivePreload(nfts, currentIndex, args, isCellular) ==
  LET preloadCount == IF args = <<>> THEN DefaultPreloadCount ELSE args[1]
      actual == ActualPreloadCount(isCellular, preloadCount)
      run == PreloadLoop(nfts, currentIndex, actual, isCellular, 1,
                         [positions |-> <<>>, jobs |-> <<>>])
      call == [preload EXCEPT !.nfts = nfts, !.currentIndex = currentIndex,
                              !.preloadCount = args, !.errors = 0]
  IN  /\ \A j \in 1..Len(preload.jobs) : preload.jobs[j].state # "pending"
      /\ preload' =
           IF nfts = <<>> \/ currentIndex < 0
             THEN [call EXCEPT !.op = "returned", !.isCellular = FALSE,
                               !.positions = <<>>, !.jobs = <<>>]
             ELSE [call EXCEPT !.op = "called", !.isCellular = isCellular,
                               !.positions = run.positions, !.jobs = run.jobs]
      /\ UNCHANGED cacheVars

\* the fetch of one preload settles: preloadVideoInitialChunk stores the chunk
\* or logs the failure; preloadVideoMetadata logs what the HEAD request
\* returned, whatever its status, or the failure
PreloadSettles(j, outcome) ==
  LET job    == preload.jobs[j]
      failed == outcome = "networkError" \/ (job.kind = "chunk" /\ outcome = "nonOk")
  IN  /\ j \in 1..Len(preload.jobs)
      /\ job.state = "pending"
      /\ preload' =
           IF failed
             THEN [preload EXCEPT !.op = "failed",
                                  !.jobs = OnPreloadFailed(@, j),
                                  !.errors = @ + 1]
             ELSE [preload EXCEPT !.op = "preloaded", !.jobs[j].state = "done"]
      /\ IF job.kind = "chunk" /\ ~failed
           THEN SetChunk(ProcessedUrl(job.nft), 0, PreloadChunkSize - 1,
                         PreloadChunkSize)
           ELSE UNCHANGED cacheVars

InitPreload == EnvIdle /\ CacheInit /\ UrlIdle /\ PlayerIdle /\ ExtIdle

PreloadStep(A) ==
  A /\ UNCHANGED <<envVars, urlVars, playerVars, queueVars, playback, resolving,
                   lateVars>>

NextPreload ==
  \/ \E nfts \in PreloadLists, args \in PreloadCountArgs, isCellular \in BOOLEAN :
       \E currentIndex \in -1..(Len(nfts) - 1) :
         PreloadStep(PredictivePreload(nfts, currentIndex, args, isCellular))
  \/ \E j \in 1..(DefaultPreloadCount + 1), outcome \in PreloadOutcomes :
       PreloadStep(PreloadSettles(j, outcome))

SpecPreload == InitPreload /\ [][NextPreload]_vars

\* the look-ahead positions that hold an item with an animation URL
VideoAhead(run) ==
  {i \in 1..Len(run.positions) : HasAnimationUrl(At(run.nfts, run.positions[i]))}

\* C16: predictivePreload returns with every preload it started still
\* pending, one for each of the positions it looked at that holds a video;
\* when a preload fails, the failure is logged, nothing is raised and every
\* other preload keeps its state.
C16_FailuresIsolated ==
  [][/\ ~preload'.raised
     /\ preload'.op = "called" =>
          /\ Len(preload'.jobs) = Cardinality(VideoAhead(preload'))
          /\ \A j \in 1..Len(preload'.jobs) : preload'.jobs[j].state = "pending"
     /\ preload'.op = "failed" =>
          /\ preload'.errors = preload.errors + 1
          /\ Len(preload'.jobs) = Len(preload.jobs)
          /\ \E j \in 1..Len(preload.jobs) :
               /\ preload.jobs[j].state = "pending"
               /\ preload'.jobs[j].state = "failed"
               /\ \A k \in 1..Len(preload.jobs) :
                    k # j => preload'.jobs[k] = preload.jobs[k]]_vars

\* the first of three preloads has failed, the second is stored, the third
\* is still pending
C16_Witness ==
  /\ Len(preload.jobs) = 3
  /\ preload.jobs[1].state = "failed"
  /\ preload.jobs[2].state = "done"
  /\ preload.jobs[3].state = "pending"
  /\ preload.errors = 1
  /\ ~preload.raised

\* C17: the number of queue positions predictivePreload looks at is
\* min(2, requested) on a cellular connection and the requested count, 3 when
\* the caller gives none, otherwise.
C17_EffectiveCount ==
  preload.op = "called" =>
    LET requested == IF preload.preloadCount = <<>> THEN 3
                     ELSE preload.preloadCount[1]
    IN  Len(preload.positions) =
          IF preload.isCellular /\ requested > 2 THEN 2 ELSE requested

\* four positions requested on a cellular connection: two are looked at
C17_Witness ==
  /\ preload.op = "called"
  /\ preload.isCellular
  /\ preload.preloadCount = <<4>>
  /\ Len(preload.positions) = 2

\* the preloads of a kind started for queue position p
JobsAt(run, p, kind) ==
  {j \in 1..Len(run.jobs) : run.jobs[j].position = p /\ run.jobs[j].kind = kind}

\* C21: for every look-ahead position that holds a video, predictivePreload
\* starts the metadata preload and no chunk fetch on a cellular connection,
\* and both the metadata preload and the chunk fetch otherwise.
C21_MetadataThenChunk ==
  preload.op = "called" =>
    \A i \in VideoAhead(preload) :
      LET p == preload.positions[i] IN
      /\ JobsAt(preload, p, "metadata") # {}
      /\ (JobsAt(preload, p, "chunk") = {}) = preload.isCellular

(***************************************************************************)
(* useAudioPlayer.handlePlayAudio: the recently-played list.  A record is  *)
(* an object: the caller's record and the copy the updater makes are two   *)
(* objects, and a write goes to the one it is made on.                     *)
(***************************************************************************)
MaxPlays == 11

\* .slice(0, 8)
RecentLimit == 8

\* how many tokens there are: tokens 1 and 2 share a mediaKey and are never
\* in the list together, so this is one entry more than the list can hold
RecentTokens == RecentLimit + 2

\* the record a page holds for a token; tokens 1 and 2 carry the same
\* mediaKey (the same content minted twice), the others none
PageRecord(t) ==
  [token |-> t, mediaKey |-> IF t <= 2 THEN <<"preset", 0>> ELSE <<>>,
   added |-> FALSE, addedAt |-> 0]

\* a plausible slip: const newNFT = nft, the writes land on the caller's record
AliasOfInput(nft) == "input"

\* const newNFT: NFT = { ...nft } : the writes land on a new object
SpreadCopy(nft) == "copy"

\* a plausible slip: the slice is left out
WholeList(list) == list

\* list.slice(0, 8)
FirstEight(list) ==
  SubSeq(list, 1, IF Len(list) < RecentLimit THEN Len(list) ELSE RecentLimit)

\* the updater handed to setRecentlyPlayedNFTs: the objects after its writes
\* and the list it returns
RecentUpdater(prevNFTs, nft, mediaKey, now) ==
  LET target  == SpreadCopy(nft)
      start   == [input |-> nft, copy |-> nft]
      keyed   == IF start[target].mediaKey = <<>>
                   THEN [start EXCEPT ![target].mediaKey = mediaKey]
                   ELSE start
      marked  == [keyed EXCEPT ![target].added = TRUE, ![target].addedAt = now]
      \* item.mediaKey || getMediaKey(item): a fresh uuid equals no key
      filteredNFTs ==
        SelectSeq(prevNFTs,
                  LAMBDA item : /\ item.token # nft.token
                                /\ ~(item.mediaKey # <<>> /\ item.mediaKey = mediaKey))
  IN  [input |-> marked.input,
       list  |-> FirstEight(<<marked[target]>> \o filteredNFTs)]

\* handlePlayAudio(nft) for a record with a playable URL; next and previous
\* end in the same call with a record of the queue
RecentPlay(nft, isFresh) ==
  LET mediaKey == IF nft.mediaKey # <<>> THEN nft.mediaKey
                  ELSE FreshMediaKey(recent.plays + 1)
      updated  == RecentUpdater(recent.list, nft, mediaKey, recent.plays + 1)
  IN  /\ recent.plays < MaxPlays
      /\ recent' =
           IF recent.current = nft.token
             THEN \* the same item: handlePlayPause, and return
                  [recent EXCEPT !.op = "toggle", !.plays = @ + 1,
                                 !.before = nft, !.after = nft]
             ELSE [recent EXCEPT !.op = "play", !.plays = @ + 1,
                                 !.current = nft.token,
                                 !.fresh = IF isFresh THEN @ + 1 ELSE @,
                                 !.list = updated.list,
                                 !.before = nft, !.after = updated.input]

\* a token never played before, taken from a page
PlayFreshRecord ==
  /\ recent.fresh < RecentTokens
  /\ RecentPlay(PageRecord(recent.fresh + 1), TRUE)

\* the page record of the token that is last in the list
PlayPageRecord ==
  /\ recent.list # <<>>
  /\ RecentPlay(PageRecord(recent.list[Len(recent.list)].token), FALSE)

\* an entry of the recently-played list itself is clicked
PlayListEntry(i) ==
  /\ i \in 1..Len(recent.list)
  /\ RecentPlay(recent.list[i], FALSE)

InitRecent == EnvIdle /\ CacheInit /\ UrlIdle /\ PlayerIdle /\ ExtIdle

RecentStep(A) ==
  A /\ UNCHANGED <<envVars, cacheVars, urlVars, playerVars, queueVars, playback,
                   resolving, preload, scenario, likes>>

NextRecent ==
  \/ RecentStep(PlayFreshRecord)
  \/ RecentStep(PlayPageRecord)
  \/ \E i \in 1..2 : RecentStep(PlayListEntry(i))

SpecRecent == InitRecent /\ [][NextRecent]_vars

\* C22: the record handed to handlePlayAudio has, after the call, the
\* values it had before in every field.
C22_InputUntouched == recent.after = recent.before

\* a page record is played: the list entry made from it is marked, the page
\* record is not
C22_Witness ==
  /\ recent.op = "play"
  /\ recent.before = PageRecord(3)
  /\ recent.after = PageRecord(3)
  /\ recent.list[1].token = 3
  /\ recent.list[1].added
  /\ recent.list[1].mediaKey # <<>>

\* C28: the recently-played list has at most 8 entries, no two of them for
\* the same contract-tokenId, and after a call that starts playback its
\* first entry is the item started.
C28_RecentList ==
  /\ Len(recent.list) <= 8
  /\ \A i, j \in 1..Len(recent.list) :
       i # j => recent.list[i].token # recent.list[j].token
  /\ recent.op = "play" => recent.list[1].token = recent.current

\* ten tokens were started, nine of them with content of their own: eight
\* entries, the newest first, the oldest gone
C28_Witness ==
  /\ recent.op = "play"
  /\ recent.fresh = 10
  /\ Len(recent.list) = 8
  /\ recent.list[1].token = 10
  /\ \A i \in 1..8 : recent.list[i].token > 2

(***************************************************************************)
(* A VideoCache constructed with a budget of its own: this.maxSize of the  *)
(* constructor, and setChunk / getChunk calls on it.                       *)
(***************************************************************************)
\* this.maxSize, in bytes
ScenarioMaxSize == 100

MaxScenarioCalls == 3

ScenarioKeys == {"K1", "K2"}

\* chunk.byteLength
ScenarioSizes == {40, 50, 60}

\* setChunk on the cache of the scenario
ScenarioSet(key, chunkSize) ==
  LET n    == IF scenario.currentSize + chunkSize > ScenarioMaxSize
                THEN EvictWithin(ScenarioMaxSize, scenario.cache,
                                 scenario.currentSize, chunkSize, 0)
                ELSE 0
      gone == SubSeq(scenario.cache, 1, n)
      kept == SubSeq(scenario.cache, n + 1, Len(scenario.cache))
  IN  /\ Len(scenario.calls) < MaxScenarioCalls
      /\ scenario' =
           [cache |-> MapSet(kept, key, chunkSize),
            currentSize |-> (scenario.currentSize - SumSizes(gone)) + chunkSize,
            calls |-> Append(scenario.calls,
                             [op |-> "set", key |-> key, size |-> chunkSize])]

\* getChunk on the cache of the scenario
ScenarioGet(key) ==
  /\ Len(scenario.calls) < MaxScenarioCalls
  /\ scenario' =
       [scenario EXCEPT
          !.cache = IF CacheHas(@, key) THEN Promote(@, key) ELSE @,
          !.calls = Append(@, [op |-> "get", key |-> key, size |-> 0])]

InitScenario == EnvIdle /\ CacheInit /\ UrlIdle /\ PlayerIdle /\ ExtIdle

ScenarioStep(A) ==
  A /\ UNCHANGED <<envVars, cacheVars, urlVars, playerVars, queueVars, playback,
                   resolving, preload, recent, likes>>

NextScenario ==
  \/ \E key \in ScenarioKeys, chunkSize \in ScenarioSizes :
       ScenarioStep(ScenarioSet(key, chunkSize))
  \/ \E key \in ScenarioKeys : ScenarioStep(ScenarioGet(key))

SpecScenario == InitScenario /\ [][NextScenario]_vars

\* C23: in a cache of 100 bytes, after a 60-byte chunk under K1 and then a
\* 50-byte chunk under K2, K2 is the only entry and currentSize is 50.
C23_SecondEvictsFirst ==
  scenario.calls = << [op |-> "set", key |-> "K1", size |-> 60],
                      [op |-> "set", key |-> "K2", size |-> 50] >>
    => /\ scenario.cache = << [key |-> "K2", size |-> 50] >>
       /\ scenario.currentSize = 50

\* the two calls of the scenario have been made: K1 is gone
C23_Witness ==
  /\ Len(scenario.calls) = 2
  /\ scenario.calls[1] = [op |-> "set", key |-> "K1", size |-> 60]
  /\ scenario.calls[2] = [op |-> "set", key |-> "K2", size |-> 50]
  /\ ~CacheHas(scenario.cache, "K1")
  /\ CacheHas(scenario.cache, "K2")

\* C26: in the shared videoCache, after any setChunk, getChunk and clear
\* calls, currentSize is the sum of the sizes of the entries in the map, and
\* is not negative.
C26_SizeIsSum ==
  /\ currentSize = SumSizes(cache)
  /\ currentSize >= 0

CleanupTimeoutFires(s) == s \in DOMAIN sessions /\ PlayerStep(VideoCleanupTimeout(s))

SpecFair ==
  /\ Init /\ [][Next]_vars
  /\ WF_vars(Next)
  /\ \A s \in 1..MaxSessions : WF_vars(CleanupTimeoutFires(s))

\* C25: every listener attached to a media element by handlePlayAudio is
\* detached again at some later time, whichever way the session ends: a
\* session's listener on the shared audio element, and its handlers on the
\* video element, do not stay attached forever.
C25_EventuallyDetached ==
  \A k \in 1..MaxSessions :
    /\ (k \in DOMAIN sessions /\ k \in audio.listeners) ~> (k \notin audio.listeners)
    /\ (k \in DOMAIN sessions /\ k \in videoListeners) ~> (k \notin videoListeners)

\* C27: a blob fetch that completes after playback has moved to another item
\* is discarded: a step in which a session's fetch completes changes the
\* src of the shared audio element only if that session's item is still the
\* one playing.
C27_StaleFetchDiscarded ==
  [][\A s \in DOMAIN sessions :
       (/\ sessions[s].fetch \in {"first", "second"}
        /\ sessions'[s].fetch = "done"
        /\ audio'.src # audio.src)
         => sessions[s].nft = currentlyPlaying]_vars

\* the step is useAudioPlayer's operation op, taken right after its operation
\* before, which moved playback from nav.current to another record
HookRoundTrip(before, op) ==
  /\ nav.impl = "useAudioPlayer" /\ nav.op = before
  /\ nav.played = currentPlayingNFT /\ nav.current # currentPlayingNFT
  /\ nav'.impl = "useAudioPlayer" /\ nav'.op = op

\* C29: in useAudioPlayer, next followed by previous, and previous followed
\* by next, bring playback back to the record it started from, whatever the
\* queue of the play context and whatever window.nftList holds.
C29_NextPreviousRoundTrip ==
  [][/\ HookRoundTrip("next", "previous") => currentPlayingNFT' = nav.current
     /\ HookRoundTrip("previous", "next") => currentPlayingNFT' = nav.current]_vars

\* ---------------------------------------------------------------------------
\* useNFTLikeState: the listener effect and its cleanup, in the two versions
\* of the hook.  activeListeners is the module's Map<string, number>; a
\* subscription is one onSnapshot call, with the number of times the function
\* it returned has been called.
\* ---------------------------------------------------------------------------

\* effect runs of one behaviour
MaxLikeMounts == 4

LikeVersions == {1, 2}

\* the fid argument: 0 before the user is known, then the Farcaster id
LikeFids == {0, 7}

\* a content-derived key: the same for every effect run on the same record
ContentMediaKey(nft, k) == <<"media", 0>>

\* generateMediaKey(nft): return uuidv4(), the k-th identifier drawn
GenerateMediaKey(nft, k) == <<"uuid", k>>

\* activeListeners.get(key) || 0
ListenersGet(map, key) == IF key \in DOMAIN map THEN map[key] ELSE 0

\* activeListeners.set
ListenersSet(map, key, value) ==
  [x \in DOMAIN map \cup {key} |-> IF x = key THEN value ELSE map[x]]

\* activeListeners.delete
ListenersDelete(map, key) == [x \in DOMAIN map \ {key} |-> map[x]]

\* the unsubscribe functions of the subscriptions ids are called
Unsubscribe(subscriptions, ids) ==
  [n \in DOMAIN subscriptions |->
     IF n \in {ids[j] : j \in DOMAIN ids}
       THEN [subscriptions[n] EXCEPT !.unsubscribed = @ + 1]
       ELSE subscriptions[n]]

Subscribed(st) == {i \in DOMAIN st.hooks : st.hooks[i].cleanup.subs # <<>>}

\* the listener effect of instance i: without a user it returns early and
\* registers no cleanup; otherwise it counts itself in activeListeners and
\* makes its two onSnapshot subscriptions
LikeEffect(st, i, fid) ==
  IF fid = 0
    THEN [st EXCEPT !.hooks[i].mounted = TRUE, !.hooks[i].cleanup = NoCleanup]
    ELSE LET k             == st.uuids + 1
             mediaKey      == GenerateMediaKey("N", k)
             cacheKey      == mediaKey \o <<fid>>
             listenerCount == ListenersGet(st.activeListeners, cacheKey)
             n             == Len(st.subscriptions)
             run == [st EXCEPT
                       !.uuids = k,
                       !.activeListeners = ListenersSet(@, cacheKey, listenerCount + 1),
                       !.subscriptions = @ \o <<[doc |-> "user", unsubscribed |-> 0],
                                                [doc |-> "global", unsubscribed |-> 0]>>,
                       !.hooks[i] = [mounted |-> TRUE, cacheKeyRef |-> cacheKey,
                                     cleanup |-> [cacheKey |-> cacheKey,
                                                  subs |-> <<n + 1, n + 2>>]]]
         IN  [run EXCEPT !.together =
                IF Cardinality(Subscribed(run)) > @
                  THEN Cardinality(Subscribed(run)) ELSE @]

\* first version: the cleanup unsubscribes, then decrements or deletes the
\* count of the cacheKey of its closure
LikeCleanupV1(st, i) ==
  LET cacheKey     == st.hooks[i].cleanup.cacheKey
      currentCount == ListenersGet(st.activeListeners, cacheKey)
  IN  [st EXCEPT
         !.subscriptions = Unsubscribe(@, st.hooks[i].cleanup.subs),
         !.activeListeners = IF currentCount > 1
                               THEN ListenersSet(@, cacheKey, currentCount - 1)
                               ELSE ListenersDelete(@, cacheKey),
         !.hooks[i].cleanup = NoCleanup]

\* second version: the cleanup reads cacheKeyRef.current and unsubscribes
\* only when the count is at most 1; otherwise it only decrements
LikeCleanupV2(st, i) ==
  LET cacheKey == st.hooks[i].cacheKeyRef
      count    == ListenersGet(st.activeListeners, cacheKey)
  IN  IF cacheKey = <<>>
        THEN [st EXCEPT !.hooks[i].cleanup = NoCleanup]
        ELSE IF count <= 1
          THEN [st EXCEPT
                  !.activeListeners = ListenersDelete(@, cacheKey),
                  !.subscriptions = Unsubscribe(@, st.hooks[i].cleanup.subs),
                  !.hooks[i].cleanup = NoCleanup]
          ELSE [st EXCEPT
                  !.activeListeners = ListenersSet(@, cacheKey, count - 1),
                  !.hooks[i].cleanup = NoCleanup]

\* React calls the cleanup the last effect run returned, if it returned one
LikeCleanup(st, i) ==
  IF st.hooks[i].cleanup.subs = <<>> THEN st
  ELSE IF st.version = 1 THEN LikeCleanupV1(st, i)
  ELSE LikeCleanupV2(st, i)

\* a component that uses the hook mounts
LikeMount(i, fid) ==
  /\ ~likes.hooks[i].mounted
  /\ likes.uuids < MaxLikeMounts
  /\ likes' = LikeEffect(likes, i, fid)

\* nft or fid of a mounted instance changes: cleanup, then the effect again
LikeDepsChange(i, fid) ==
  /\ likes.hooks[i].mounted
  /\ likes.uuids < MaxLikeMounts
  /\ likes' = LikeEffect(LikeCleanup(likes, i), i, fid)

\* the component unmounts
LikeUnmount(i) ==
  /\ likes.hooks[i].mounted
  /\ likes' = [LikeCleanup(likes, i) EXCEPT !.hooks[i].mounted = FALSE]

InitLikes ==
  /\ EnvIdle /\ CacheInit /\ UrlIdle /\ PlayerIdle
  /\ QueueIdle /\ PlaybackIdle /\ ResolvingIdle /\ PreloadIdle
  /\ RecentIdle /\ ScenarioIdle
  /\ likes \in {NoLikes(version) : version \in LikeVersions}

LikeStep(A) ==
  A /\ UNCHANGED <<envVars, cacheVars, urlVars, playerVars, queueVars, playback,
                   resolving, preload, recent, scenario>>

NextLikes ==
  \/ \E i \in 1..MaxLikeInstances, fid \in LikeFids : LikeStep(LikeMount(i, fid))
  \/ \E i \in 1..MaxLikeInstances, fid \in LikeFids : LikeStep(LikeDepsChange(i, fid))
  \/ \E i \in 1..MaxLikeInstances : LikeStep(LikeUnmount(i))

SpecLikes == InitLikes /\ [][NextLikes]_vars

AllUnmounted == \A i \in 1..MaxLikeInstances : ~likes.hooks[i].mounted

====
